---- MODULE Spec2Model ----
(***************************************************************************)
(* go-textmate: the rule compiler (compile.go), the loader, and the        *)
(* stack-based tokenizer (matcher.go), as a state machine.                 *)
(*                                                                         *)
(* Text is a sequence of one-byte strings.  A stack (a StackItem) is the   *)
(* sequence of its frames, bottom first; the nil stack is << >>.           *)
(* A grammar is named by the index of its file in the loader's input.      *)
(***************************************************************************)
EXTENDS Integers, Sequences, FiniteSets, TLC

\* ------------------------------------------------------------------ bounds
MaxLen == 3         \* longest generated input text
MaxCallDepth == 14  \* nesting of evaluate calls the goroutine stack can hold
MaxMapLen == 3      \* longest Mapper
MaxAdds == 3        \* most Mapper.Add calls
MaxParLen == 4      \* most bytes two concurrent tokenizations read together

\* ------------------------------------------------------------- regex adapter
\* The patterns the modelled grammars use, with what Oniguruma does on each:
\*   lit   - the literal bytes `lit`; grp gives the ranges of groups 1..n
\*           relative to the match start (<<-1,-1>>: group did not take part)
\*   plus  - one or more bytes of class cls, greedy
\*   star  - zero or more bytes of class cls, greedy (may match empty)
\*   ahead - a lookahead for one byte of cls: matches empty (a group
\*           inside the lookahead still gets its range)
\*   fail  - the engine gives up with an error code at match time on a
\*           text that starts with a byte of cls (a run that exhausts its
\*           retry limit); otherwise the pattern is the literal `lit`
\* A leading ^ is decided on the slice the caller hands over: onig_match is
\* started at the first byte of that slice, which is a beginning of string.
Bytes == {"a", "b", "(", ")", ">", "/", "*", " ", "T", "O", "D", "\n"}

NoSem == [kind |-> "none", lit |-> << >>, cls |-> {}, grp |-> << >>]

Lit(w) == [NoSem EXCEPT !.kind = "lit", !.lit = w]

PatSem(p) ==
  CASE p = "\\(" -> Lit(<<"(">>)
    [] p = "\\)" -> Lit(<<")">>)
    [] p = "a" -> Lit(<<"a">>)
    [] p = "b" -> Lit(<<"b">>)
    [] p = "/\\*" -> Lit(<<"/", "*">>)
    [] p = "\\*/" -> Lit(<<"*", "/">>)
    [] p = "TODO" -> Lit(<<"T", "O", "D", "O">>)
    [] p = "^>" -> Lit(<<">">>)
    [] p = "(a)" -> [Lit(<<"a">>) EXCEPT !.grp = << <<0, 1>> >>]
    [] p = "((a))" -> [Lit(<<"a">>) EXCEPT !.grp = << <<0, 1>>, <<0, 1>> >>]
    [] p = "(a)(b)" -> [Lit(<<"a", "b">>) EXCEPT !.grp = << <<0, 1>>, <<1, 2>> >>]
    [] p = "(\\()" -> [Lit(<<"(">>) EXCEPT !.grp = << <<0, 1>> >>]
    [] p = "(\\))" -> [Lit(<<")">>) EXCEPT !.grp = << <<0, 1>> >>]
    [] p = "(x)?a" -> [Lit(<<"a">>) EXCEPT !.grp = << <<-1, -1>> >>]
    [] p = ".+" -> [NoSem EXCEPT !.kind = "plus", !.cls = Bytes \ {"\n"}]
    [] p = "b*" -> [NoSem EXCEPT !.kind = "star", !.cls = {"b"}]
    [] p = "(?=a)" -> [NoSem EXCEPT !.kind = "ahead", !.cls = {"a"}]
    [] p = "(?=b)" -> [NoSem EXCEPT !.kind = "ahead", !.cls = {"b"}]
    [] p = "(?=(b))" ->
         [NoSem EXCEPT !.kind = "ahead", !.cls = {"b"}, !.grp = << <<0, 1>> >>]
    [] p = "(a*)*b" ->
         [NoSem EXCEPT !.kind = "fail", !.cls = {"a"}, !.lit = <<"b">>,
                       !.grp = << <<-1, -1>> >>]
    [] OTHER -> NoSem

\* regexp.Compile: the empty pattern and a pattern Oniguruma rejects fail.
Compile(p) == [ok |-> p # "" /\ PatSem(p).kind # "none", re |-> p]

Range(s, e) == [Start |-> s, End |-> e]

RngLen(r) == r.End - r.Start

RECURSIVE Run(_, _, _)
\* length of the longest run of bytes of cls in text from index i (1-based)
Run(cls, text, i) ==
  IF i <= Len(text) /\ text[i] \in cls THEN 1 + Run(cls, text, i + 1) ELSE 0

IsPrefix(w, text) ==
  Len(w) <= Len(text) /\ \A i \in 1..Len(w) : text[i] = w[i]

NoMatch == [err |-> FALSE, isnil |-> TRUE, groups |-> << >>]

Groups(len, grp) ==
  [err |-> FALSE, isnil |-> FALSE,
   groups |-> <<Range(0, len)>> \o
              [i \in 1..Len(grp) |->
                 IF grp[i][1] = -1 \/ grp[i][2] = -1
                 THEN Range(0, 0) ELSE Range(grp[i][1], grp[i][2])]]

\* Regexp.Match(text, 0, len(text), opts): anchored at the first byte.
Match(p, text) ==
  LET s == PatSem(p) IN
  IF Len(text) = 0 THEN NoMatch
  ELSE CASE s.kind = "lit" ->
              IF IsPrefix(s.lit, text) THEN Groups(Len(s.lit), s.grp) ELSE NoMatch
         [] s.kind = "plus" ->
              IF Run(s.cls, text, 1) > 0 THEN Groups(Run(s.cls, text, 1), << >>)
              ELSE NoMatch
         [] s.kind = "star" -> Groups(Run(s.cls, text, 1), << >>)
         [] s.kind = "ahead" ->
              IF text[1] \in s.cls THEN Groups(0, s.grp) ELSE NoMatch
         [] s.kind = "fail" ->
              IF text[1] \in s.cls
              THEN [err |-> TRUE, isnil |-> TRUE, groups |-> << >>]
              ELSE IF IsPrefix(s.lit, text) THEN Groups(Len(s.lit), s.grp)
              ELSE NoMatch
         [] OTHER -> NoMatch

\* ---------------------------------------------------------------- tokens
Token(scope, start, length, depth) ==
  [Scope |-> scope, Start |-> start, Length |-> length, Depth |-> depth]

\* CompareToken without its tie-breaks: tokens are ordered by Start alone
CompareTokenStartOnly(left, right) == left.Start - right.Start

CompareToken(left, right) ==
  IF left.Start # right.Start THEN left.Start - right.Start
  ELSE IF left.Length # right.Length THEN left.Length - right.Length
  ELSE left.Depth - right.Depth

TokEnd(tok) == tok.Start + tok.Length

\* ------------------------------------------------------------------ stack
Frame(rules, offset) == [rules |-> rules, offset |-> offset]

Top(si) == si[Len(si)]

Previous(si) == SubSeq(si, 1, Len(si) - 1)

RECURSIVE DepthFromZero(_)
\* Depth counting the frames only, without the initial 1
DepthFromZero(si) == IF si = << >> THEN 0 ELSE DepthFromZero(Previous(si)) + 1

RECURSIVE Depth(_)
\* StackItem.Depth: starts at 1 and counts one more for every frame of si.
Depth(si) == IF si = << >> THEN 1 ELSE Depth(Previous(si)) + 1

\* ------------------------------------------------------------ decoded grammar
\* A Go map is [isnil, m]: m is a function from keys to values.  A capture
\* key is the sequence of its bytes.  An include string is the sequence of
\* its '#' bytes and of the maximal '#'-free pieces between them, and a
\* repository key is such a sequence too, so that splitting an include at
\* '#' and parsing a capture key are computed, not assumed.
NilMap == [isnil |-> TRUE, m |-> << >>]

MapOf(f) == [isnil |-> FALSE, m |-> f]

MapLen(j) == Cardinality(DOMAIN j.m)

\* the zero RuleJSON
RJ ==
  [name |-> "", match |-> "", begin |-> "", end |-> "", while |-> "",
   patterns |-> << >>, captures |-> NilMap, beginCaptures |-> NilMap,
   endCaptures |-> NilMap, include |-> << >>]

GrammarJSON(scope, fts, pats, repo) ==
  [ScopeName |-> scope, FileTypes |-> fts, Patterns |-> pats, Repository |-> repo]

\* ---------------------------------------------------------------- rule nodes
\* One record shape for includeRule, expandRule and matchRule; kind "nil" is
\* the nil rule of an unused capture slot.
NilRule ==
  [kind |-> "nil", name |-> "", pattern |-> "", negate |-> FALSE,
   captures |-> << >>, rules |-> << >>, rulesNil |-> TRUE,
   operation |-> "opNOP", grammar |-> 0, scopename |-> "", rulename |-> << >>]

\* the string made of a '#'-free run of pieces (none, or one)
Str(s) == IF s = << >> THEN "" ELSE s[1]

\* strings.Cut(s, "#"): the chunks before the first '#' and those after it.
CutAt(s) ==
  IF \E i \in 1..Len(s) : s[i] = "#"
  THEN LET i == CHOOSE k \in 1..Len(s) :
                  s[k] = "#" /\ \A m \in 1..(k - 1) : s[m] # "#"
       IN [before |-> SubSeq(s, 1, i - 1), after |-> SubSeq(s, i + 1, Len(s))]
  ELSE [before |-> s, after |-> << >>]

DigitVal(c) ==
  CASE c = "0" -> 0 [] c = "1" -> 1 [] c = "2" -> 2 [] c = "3" -> 3
    [] c = "4" -> 4 [] c = "5" -> 5 [] c = "6" -> 6 [] c = "7" -> 7
    [] c = "8" -> 8 [] c = "9" -> 9 [] OTHER -> -1

RECURSIVE DecVal(_, _)
DecVal(ds, n) == IF n = 0 THEN 0 ELSE DecVal(ds, n - 1) * 10 + DigitVal(ds[n])

\* strconv.Atoi: an optional sign, then one or more decimal digits.
Atoi(num) ==
  LET signed == Len(num) > 0 /\ num[1] \in {"+", "-"}
      ds == IF signed THEN SubSeq(num, 2, Len(num)) ELSE num
  IN IF Len(ds) = 0 \/ \E i \in 1..Len(ds) : DigitVal(ds[i]) < 0
     THEN [ok |-> FALSE, i |-> 0]
     ELSE [ok |-> TRUE,
           i |-> IF signed /\ num[1] = "-" THEN 0 - DecVal(ds, Len(ds))
                 ELSE DecVal(ds, Len(ds))]

MaxOf(S) == IF S = {} THEN 0 ELSE CHOOSE x \in S : \A y \in S : y <= x

\* ------------------------------------------------------------- rule compiler
\* Bind(v, F) is F(v) with v computed once, however often F uses it.
Bind(v, F(_)) == CHOOSE y \in {F(x) : x \in {v}} : TRUE

\* A compile result is [st, rule] (or [st, caps], [st, rules]); st is "ok",
\* "err" (an error is returned) or "panic" (index out of range).
Failed(st) == [st |-> st, rule |-> NilRule]

RECURSIVE compileRule(_, _)
RECURSIVE compileCaptures(_, _)

RECURSIVE compilePatternsFrom(_, _, _)
compilePatternsFrom(grammar, pats, k) ==
  IF k > Len(pats) THEN [st |-> "ok", rules |-> << >>]
  ELSE Bind(compileRule(grammar, pats[k]), LAMBDA r :
         IF r.st # "ok" THEN [st |-> r.st, rules |-> << >>]
         ELSE Bind(compilePatternsFrom(grammar, pats, k + 1), LAMBDA more :
                [st |-> more.st, rules |-> <<r.rule>> \o more.rules]))

\* the loops `for i, jp := range j.Patterns { rules[i], err = compileRule }`
compilePatterns(grammar, pats) == compilePatternsFrom(grammar, pats, 1)

\* compileCaptures, the body of its second loop: the capture of key num
compileCapture(grammar, jp) ==
  Bind(compilePatterns(grammar, jp.patterns), LAMBDA sub :
    [st |-> sub.st,
     rule |-> [NilRule EXCEPT !.kind = "match", !.name = jp.name,
                              !.grammar = grammar, !.rules = sub.rules,
                              !.rulesNil = FALSE]])

\* compileCaptures storing the capture of key i in the i-th slot, counted from 1
compileCapturesOneBased(grammar, j) ==
  IF j.isnil THEN [st |-> "ok", caps |-> << >>]
  ELSE
    LET keys == DOMAIN j.m
        maxcaptures == MaxOf({Atoi(num).i : num \in keys} \cup {0})
    IN IF \E num \in keys : ~Atoi(num).ok THEN [st |-> "err", caps |-> << >>]
       ELSE Bind([num \in keys |-> compileCapture(grammar, j.m[num])], LAMBDA cs :
              IF \E num \in keys : cs[num].st # "ok"
              THEN [st |-> (CHOOSE st \in {cs[num].st : num \in keys} : st # "ok"),
                    caps |-> << >>]
              ELSE IF \E num \in keys : Atoi(num).i < 0
              THEN [st |-> "panic", caps |-> << >>]
              ELSE [st |-> "ok",
                    caps |-> [k \in 1..(maxcaptures + 1) |->
                               IF \E num \in keys : Atoi(num).i = k
                               THEN cs[CHOOSE num \in keys : Atoi(num).i = k].rule
                               ELSE NilRule]])

compileCaptures(grammar, j) ==
  IF j.isnil THEN [st |-> "ok", caps |-> << >>]
  ELSE
    LET keys == DOMAIN j.m
        maxcaptures == MaxOf({Atoi(num).i : num \in keys} \cup {0})
    IN IF \E num \in keys : ~Atoi(num).ok THEN [st |-> "err", caps |-> << >>]
       ELSE Bind([num \in keys |-> compileCapture(grammar, j.m[num])], LAMBDA cs :
              IF \E num \in keys : cs[num].st # "ok"
              THEN [st |-> (CHOOSE st \in {cs[num].st : num \in keys} : st # "ok"),
                    caps |-> << >>]
              ELSE IF \E num \in keys : Atoi(num).i < 0
              THEN [st |-> "panic", caps |-> << >>]
              ELSE [st |-> "ok",
                    caps |-> [k \in 1..(maxcaptures + 1) |->
                               IF \E num \in keys : Atoi(num).i = k - 1
                               THEN cs[CHOOSE num \in keys : Atoi(num).i = k - 1].rule
                               ELSE NilRule]])

\* compileRule, begin/end branch: which maps become begin- and end-captures
blockCaptures(grammar, j) ==
  IF MapLen(j.captures) > 0
  THEN Bind(compileCaptures(grammar, j.beginCaptures), LAMBDA captures :
         [st |-> captures.st, begin |-> captures.caps, end |-> captures.caps])
  ELSE Bind(compileCaptures(grammar, j.beginCaptures), LAMBDA b :
         Bind(compileCaptures(grammar, j.endCaptures), LAMBDA e :
           [st |-> IF b.st # "ok" THEN b.st ELSE e.st,
            begin |-> b.caps, end |-> e.caps]))

\* the begin/end branch with the pop rule put after the inner patterns
compileBlockEndLast(grammar, j) ==
  LET endptr == IF j.while # "" THEN j.while ELSE j.end
      whileEnd == j.while # ""
  IN IF ~Compile(j.begin).ok \/ ~Compile(endptr).ok THEN Failed("err")
     ELSE Bind(blockCaptures(grammar, j), LAMBDA caps :
       IF caps.st # "ok" THEN Failed(caps.st)
       ELSE Bind(compilePatterns(grammar, j.patterns), LAMBDA inner :
         IF inner.st # "ok" THEN Failed(inner.st)
         ELSE [st |-> "ok",
               rule |-> [NilRule EXCEPT
                 !.kind = "match",
                 !.pattern = Compile(j.begin).re,
                 !.captures = caps.begin,
                 !.rules =
                   inner.rules \o
                   <<[NilRule EXCEPT !.kind = "match", !.name = j.name,
                                     !.pattern = Compile(endptr).re,
                                     !.captures = caps.end, !.negate = whileEnd,
                                     !.operation = "opPop", !.grammar = grammar]>>,
                 !.rulesNil = FALSE,
                 !.operation = "opPush",
                 !.grammar = grammar]]))

\* compileRule, begin/end branch
compileBlock(grammar, j) ==
  LET endptr == IF j.while # "" THEN j.while ELSE j.end
      whileEnd == j.while # ""
  IN IF ~Compile(j.begin).ok \/ ~Compile(endptr).ok THEN Failed("err")
     ELSE Bind(blockCaptures(grammar, j), LAMBDA caps :
       IF caps.st # "ok" THEN Failed(caps.st)
       ELSE Bind(compilePatterns(grammar, j.patterns), LAMBDA inner :
         IF inner.st # "ok" THEN Failed(inner.st)
         ELSE [st |-> "ok",
               rule |-> [NilRule EXCEPT
                 !.kind = "match",
                 !.pattern = Compile(j.begin).re,
                 !.captures = caps.begin,
                 !.rules =
                   <<[NilRule EXCEPT !.kind = "match", !.name = j.name,
                                     !.pattern = Compile(endptr).re,
                                     !.captures = caps.end, !.negate = whileEnd,
                                     !.operation = "opPop", !.grammar = grammar]>>
                   \o inner.rules,
                 !.rulesNil = FALSE,
                 !.operation = "opPush",
                 !.grammar = grammar]]))

\* compileRule without the test for a begin, end or while left alone
compileRuleNoPairing(grammar, j) ==
  CASE j.include # << >> ->
         [st |-> "ok",
          rule |-> [NilRule EXCEPT !.kind = "include",
                                   !.scopename = Str(CutAt(j.include).before),
                                   !.rulename = CutAt(j.include).after,
                                   !.grammar = grammar]]
    [] j.include = << >> /\ j.match # "" ->
         IF ~Compile(j.match).ok THEN Failed("err")
         ELSE Bind(compileCaptures(grammar, j.captures), LAMBDA captures :
                IF captures.st # "ok" THEN Failed(captures.st)
                ELSE [st |-> "ok",
                      rule |-> [NilRule EXCEPT !.kind = "match", !.name = j.name,
                                               !.pattern = Compile(j.match).re,
                                               !.captures = captures.caps,
                                               !.grammar = grammar]])
    [] j.include = << >> /\ j.match = ""
         /\ j.begin # "" /\ (j.end # "" \/ j.while # "") -> compileBlock(grammar, j)
    [] j.include = << >> /\ j.match = ""
         /\ ~(j.begin # "" /\ (j.end # "" \/ j.while # ""))
         /\ FALSE -> Failed("err")
    [] OTHER ->
         Bind(compilePatterns(grammar, j.patterns), LAMBDA sub :
           IF sub.st # "ok" THEN Failed(sub.st)
           ELSE [st |-> "ok",
                 rule |-> [NilRule EXCEPT !.kind = "expand", !.name = j.name,
                                          !.rules = sub.rules, !.rulesNil = FALSE,
                                          !.grammar = grammar]])

compileRule(grammar, j) ==
  CASE j.include # << >> ->
         [st |-> "ok",
          rule |-> [NilRule EXCEPT !.kind = "include",
                                   !.scopename = Str(CutAt(j.include).before),
                                   !.rulename = CutAt(j.include).after,
                                   !.grammar = grammar]]
    [] j.include = << >> /\ j.match # "" ->
         IF ~Compile(j.match).ok THEN Failed("err")
         ELSE Bind(compileCaptures(grammar, j.captures), LAMBDA captures :
                IF captures.st # "ok" THEN Failed(captures.st)
                ELSE [st |-> "ok",
                      rule |-> [NilRule EXCEPT !.kind = "match", !.name = j.name,
                                               !.pattern = Compile(j.match).re,
                                               !.captures = captures.caps,
                                               !.grammar = grammar]])
    [] j.include = << >> /\ j.match = ""
         /\ j.begin # "" /\ (j.end # "" \/ j.while # "") -> compileBlock(grammar, j)
    [] j.include = << >> /\ j.match = ""
         /\ ~(j.begin # "" /\ (j.end # "" \/ j.while # ""))
         /\ (j.begin # "" \/ j.end # "" \/ j.while # "") -> Failed("err")
    [] OTHER ->
         Bind(compilePatterns(grammar, j.patterns), LAMBDA sub :
           IF sub.st # "ok" THEN Failed(sub.st)
           ELSE [st |-> "ok",
                 rule |-> [NilRule EXCEPT !.kind = "expand", !.name = j.name,
                                          !.rules = sub.rules, !.rulesNil = FALSE,
                                          !.grammar = grammar]])

\* CompileGrammar(l, j); `grammar` is the index that names the result.
CompileGrammar(grammar, j) ==
  Bind(compilePatterns(grammar, j.Patterns), LAMBDA root :
    IF root.st # "ok" THEN [st |-> root.st]
    ELSE Bind([n \in DOMAIN j.Repository |-> compileRule(grammar, j.Repository[n])],
              LAMBDA repo :
      IF \E n \in DOMAIN repo : repo[n].st # "ok"
      THEN [st |-> (CHOOSE st \in {repo[n].st : n \in DOMAIN repo} : st # "ok")]
      ELSE [st |-> "ok", id |-> grammar, scopeName |-> j.ScopeName,
            fileTypes |-> j.FileTypes,
            repository |-> [n \in DOMAIN repo |-> repo[n].rule],
            root |-> [NilRule EXCEPT !.kind = "expand", !.name = j.ScopeName,
                                     !.rules = root.rules, !.rulesNil = FALSE,
                                     !.grammar = grammar]]))

\* ------------------------------------------------------------------- state
VARIABLES
  files,       \* the files NewLoader is given: [ok, json], in order
  entry,       \* the file type and index the caller asks FromFileType for
  input,       \* the bytes the reader given to TokenizeReader delivers
  ioerr,       \* the reader returned an error other than io.EOF
  nloaded,     \* NewLoader: how many files have been processed
  scopes,      \* Loader.scopes: scope name -> file index
  filetypes,   \* Loader.filetypes: extension -> file indexes in load order
  pc,          \* where the caller stands
  base,        \* the grammar TokenizeReader runs on (0: none)
  rest,        \* TokenizeReader: the input the scanner has not delivered
  text,        \* TokenizeSequence: the line being tokenized
  offset,      \* TokenizeReader: offset of the line in the input
  lineoffset,  \* TokenizeSequence: the cursor in the line
  top,         \* the stack
  tokens,      \* TokenizeReader: the tokens collected by the callback
  result,      \* what TokenizeReader returned: [tokens, err]
  last,        \* history: the last outer-loop iteration of TokenizeSequence
  iters,       \* history: iterations the running TokenizeSequence has made
  matched,     \* history: the input offsets a positive advance has consumed
  begun,       \* history: the begin matches that pushed a frame on the stack
  tm,          \* the Mapper: per position, the tokens (pointers) stored
  adds,        \* history: the tokens Mapper.Add was called with, in order
  mpc,         \* where the Mapper's user stands
  ipos,        \* Mapper.Iter: the position the loop is at
  prev,        \* Mapper.Iter: prev
  yielded,     \* Mapper.Iter: the pairs passed to yield, in order
  compileIn,   \* the argument of a direct compileCaptures/compileRule call
  compileOut,  \* what that call returned
  procs        \* concurrent TokenizeReader calls on one grammar: per call,
               \* its locals

\* the variables of the loader and the tokenizer
tvars ==
  <<files, entry, input, ioerr, nloaded, scopes, filetypes, pc, base, rest,
    text, offset, lineoffset, top, tokens, result, last, iters, matched, begun>>

\* the variables of the Mapper
mvars == <<tm, adds, mpc, ipos, prev, yielded>>

\* the variables of a direct call of the compiler
cvars == <<compileIn, compileOut>>

\* the variables of the concurrent callers
pvars == <<procs>>

vars == <<tvars, mvars, cvars, pvars>>

\* ------------------------------------------------------------------ loader
\* Loader.FromScope: [st, g]
FromScope(scope) ==
  IF scope \notin DOMAIN scopes THEN [st |-> "err"]
  ELSE CompileGrammar(scopes[scope], files[scopes[scope]].json)

\* the *Grammar a compiled rule points back to
GrammarOf(id) == CompileGrammar(id, files[id].json)

\* ---------------------------------------------------------------- evaluate
\* An evaluation result: the new stack, the advance, st ("ok", "err": an
\* error is returned, "overflow": the goroutine stack is exhausted,
\* "panic": nil dereference), the tokens passed to yield in order, and a
\* log, in order, of the rules TokenizeSequence tried (ev "try"), of the
\* includes that were evaluated (ev "include", ok: did the include
\* resolve) and of the match rules that matched (ev "match", with the
\* match length, the groups of the match, the tokens the rule yielded and
\* the stack it returned),
\* each with the position and the stack it was evaluated at.
Res(t, adv, st, toks, log) ==
  [top |-> t, adv |-> adv, st |-> st, toks |-> toks, log |-> log]

Logged(ev, rule, pos, t, ok) ==
  <<[ev |-> ev, rule |-> rule, pos |-> pos, top |-> t, ok |-> ok,
     len |-> 0, toks |-> << >>, after |-> t, target |-> 0, groups |-> << >>]>>

\* the log of an include whose grammar resolved to othergrammar
Included(rule, pos, t, ok, othergrammar) ==
  <<[ev |-> "include", rule |-> rule, pos |-> pos, top |-> t, ok |-> ok,
     len |-> 0, toks |-> << >>, after |-> t, target |-> othergrammar.id,
     groups |-> << >>]>>

Matched(rule, pos, t, groups, r) ==
  [r EXCEPT !.log = <<[ev |-> "match", rule |-> rule, pos |-> pos, top |-> t,
                       ok |-> r.st = "ok", len |-> r.adv, toks |-> r.toks,
                       after |-> r.top, target |-> 0, groups |-> groups]>> \o @]

\* r, after toks were yielded and log was tried before it
After(toks, log, r) == [r EXCEPT !.toks = toks \o @, !.log = log \o @]

RECURSIVE evaluate(_, _, _, _, _, _)
RECURSIVE TokenizeLoop(_, _, _, _, _, _)

\* the switch on rule.scopename with `$base` taken for `$self`
includeTargetOwner(rule, basegrammar) ==
  CASE rule.scopename \in {"", "$self", "$base"} -> GrammarOf(rule.grammar)
    [] OTHER -> FromScope(rule.scopename)

\* includeRule.evaluate, the switch on rule.scopename: [st, g]
includeTarget(rule, basegrammar) ==
  CASE rule.scopename \in {"", "$self"} -> GrammarOf(rule.grammar)
    [] rule.scopename = "$base" -> GrammarOf(basegrammar)
    [] OTHER -> FromScope(rule.scopename)

\* includeRule.evaluate without the repository lookup: the rule name after
\* '#' is ignored and the target grammar's root is evaluated
includeEvaluateRoot(rule, off, txt, t, basegrammar, d) ==
  Bind(includeTarget(rule, basegrammar), LAMBDA othergrammar :
    IF othergrammar.st # "ok"
    THEN Res(<< >>, 0, "err", << >>, Logged("include", rule, off, t, FALSE))
    ELSE After(<< >>, Included(rule, off, t, TRUE, othergrammar),
               evaluate(othergrammar.root, off, txt, t, basegrammar, d + 1)))

\* includeRule.evaluate
includeEvaluate(rule, off, txt, t, basegrammar, d) ==
  Bind(includeTarget(rule, basegrammar), LAMBDA othergrammar :
    IF othergrammar.st # "ok"
    THEN Res(<< >>, 0, "err", << >>, Logged("include", rule, off, t, FALSE))
    ELSE IF rule.rulename # << >>
    THEN IF rule.rulename \notin DOMAIN othergrammar.repository
         THEN Res(<< >>, 0, "err", << >>,
                  Included(rule, off, t, FALSE, othergrammar))
         ELSE After(<< >>, Included(rule, off, t, TRUE, othergrammar),
                    evaluate(othergrammar.repository[rule.rulename],
                             off, txt, t, basegrammar, d + 1))
    ELSE After(<< >>, Included(rule, off, t, TRUE, othergrammar),
               evaluate(othergrammar.root, off, txt, t, basegrammar, d + 1)))

RECURSIVE expandLoopSkip(_, _, _, _, _, _, _)
\* expandRule.evaluate dropping a child's error: the child is skipped
expandLoopSkip(rules, k, off, txt, t, basegrammar, d) ==
  IF k > Len(rules) THEN Res(t, 0, "ok", << >>, << >>)
  ELSE Bind(evaluate(rules[k], off, txt, t, basegrammar, d + 1), LAMBDA r :
         IF r.st = "err"
         THEN After(r.toks, r.log,
                    expandLoopSkip(rules, k + 1, off, txt, t, basegrammar, d))
         ELSE IF r.st # "ok" \/ r.adv # 0 THEN r
         ELSE After(r.toks, r.log,
                    expandLoopSkip(rules, k + 1, off, txt, r.top, basegrammar, d)))

RECURSIVE expandLoop(_, _, _, _, _, _, _)
\* expandRule.evaluate, from child k on
expandLoop(rules, k, off, txt, t, basegrammar, d) ==
  IF k > Len(rules) THEN Res(t, 0, "ok", << >>, << >>)
  ELSE Bind(evaluate(rules[k], off, txt, t, basegrammar, d + 1), LAMBDA r :
         IF r.st # "ok" \/ r.adv # 0 THEN r
         ELSE After(r.toks, r.log,
                    expandLoop(rules, k + 1, off, txt, r.top, basegrammar, d)))

expandEvaluate(rule, off, txt, t, basegrammar, d) ==
  expandLoop(rule.rules, 1, off, txt, t, basegrammar, d)

\* matchRule.evaluate, the body of the loop over the groups for one group
\* that has a range and a capture: the capture's token, then its children
captureOne(cap, rng, off, txt, t, basegrammar, d) ==
  LET capTok == IF cap.name # ""
                THEN <<Token(cap.name, off + rng.Start, RngLen(rng), Depth(t))>>
                ELSE << >>
  IN IF cap.rulesNil THEN Res(t, 0, "ok", capTok, << >>)
     ELSE After(capTok, << >>,
                TokenizeLoop(off + rng.Start, SubSeq(txt, rng.Start + 1, rng.End),
                             0, Append(t, Frame(cap.rules, 0)), basegrammar, d + 1))

\* the loop over the groups keeping the stack the capture's tokenizer returned
AfterCaptureKeep(t, sub) == sub.top

\* matchRule.evaluate, `_, err = TokenizeSequence(...)` in the loop over the
\* groups: the stack the capture's tokenizer returned is dropped
AfterCapture(t, sub) == t

RECURSIVE captureLoop(_, _, _, _, _, _, _, _)
\* matchRule.evaluate, the loop over the groups, from group i - 1 on
captureLoop(captures, groups, i, off, txt, t, basegrammar, d) ==
  IF i > Len(groups) \/ i > Len(captures) THEN Res(t, 0, "ok", << >>, << >>)
  ELSE IF RngLen(groups[i]) = 0 \/ captures[i].kind = "nil"
  THEN captureLoop(captures, groups, i + 1, off, txt, t, basegrammar, d)
  ELSE Bind(captureOne(captures[i], groups[i], off, txt, t, basegrammar, d),
            LAMBDA sub :
         IF sub.st # "ok" THEN Res(<< >>, 0, sub.st, sub.toks, sub.log)
         ELSE After(sub.toks, sub.log,
                    captureLoop(captures, groups, i + 1, off, txt,
                                AfterCapture(t, sub), basegrammar, d)))

\* the push putting the new frame in the place of the top frame
PushedInPlace(t, rule, off) == Append(Previous(t), Frame(rule.rules, off))

\* matchRule.evaluate, case opPush: the new frame, its previous is the top
Pushed(t, rule, off) == Append(t, Frame(rule.rules, off))

\* matchRule.evaluate giving the block token the depth of the stack after
\* the pop
matchApplyDepthAfterPop(rule, groups, off, txt, t, basegrammar, d) ==
  LET length == IF Len(groups) > 0 THEN RngLen(groups[1]) ELSE 0
      nameTok ==
        IF rule.name = "" THEN << >>
        ELSE IF Len(groups) > 0
        THEN <<Token(rule.name, groups[1].Start + off, RngLen(groups[1]), Depth(t))>>
        ELSE <<Token(rule.name, off, 0, Depth(t))>>
  IN Bind(captureLoop(rule.captures, groups, 1, off, txt, t, basegrammar, d),
          LAMBDA caps :
       IF caps.st # "ok" THEN Res(<< >>, 0, caps.st, nameTok \o caps.toks, caps.log)
       ELSE CASE rule.operation = "opPush" ->
                   Res(Pushed(caps.top, rule, off), length, "ok",
                       nameTok \o caps.toks, caps.log)
              [] rule.operation = "opPop" ->
                   IF t = << >>
                   THEN Res(<< >>, 0, "panic", nameTok \o caps.toks, caps.log)
                   ELSE Res(Previous(caps.top), length, "ok",
                            nameTok \o caps.toks
                              \o <<Token(rule.name, Top(t).offset,
                                         length + off - Top(t).offset,
                                         Depth(Previous(t)))>>,
                            caps.log)
              [] OTHER -> Res(caps.top, length, "ok", nameTok \o caps.toks,
                              caps.log))

\* matchRule.evaluate, after the pattern matched with these groups
matchApply(rule, groups, off, txt, t, basegrammar, d) ==
  LET length == IF Len(groups) > 0 THEN RngLen(groups[1]) ELSE 0
      nameTok ==
        IF rule.name = "" THEN << >>
        ELSE IF Len(groups) > 0
        THEN <<Token(rule.name, groups[1].Start + off, RngLen(groups[1]), Depth(t))>>
        ELSE <<Token(rule.name, off, 0, Depth(t))>>
  IN Bind(captureLoop(rule.captures, groups, 1, off, txt, t, basegrammar, d),
          LAMBDA caps :
       IF caps.st # "ok" THEN Res(<< >>, 0, caps.st, nameTok \o caps.toks, caps.log)
       ELSE CASE rule.operation = "opPush" ->
                   Res(Pushed(caps.top, rule, off), length, "ok",
                       nameTok \o caps.toks, caps.log)
              [] rule.operation = "opPop" ->
                   IF t = << >>
                   THEN Res(<< >>, 0, "panic", nameTok \o caps.toks, caps.log)
                   ELSE Res(Previous(caps.top), length, "ok",
                            nameTok \o caps.toks
                              \o <<Token(rule.name, Top(t).offset,
                                         length + off - Top(t).offset, Depth(t))>>,
                            caps.log)
              [] OTHER -> Res(caps.top, length, "ok", nameTok \o caps.toks,
                              caps.log))

\* matchRule.evaluate
matchEvaluate(rule, off, txt, t, basegrammar, d) ==
  Bind(Match(rule.pattern, txt), LAMBDA m :
    IF m.err THEN Res(t, 0, "err", << >>, Logged("match", rule, off, t, FALSE))
    ELSE IF m.isnil # rule.negate THEN Res(t, 0, "ok", << >>, << >>)
    ELSE Matched(rule, off, t, m.groups,
                 matchApply(rule, m.groups, off, txt, t, basegrammar, d)))

\* rule.evaluate: dispatch on the dynamic type
evaluate(rule, off, txt, t, basegrammar, d) ==
  IF d > MaxCallDepth THEN Res(<< >>, 0, "overflow", << >>, << >>)
  ELSE CASE rule.kind = "include" -> includeEvaluate(rule, off, txt, t, basegrammar, d)
         [] rule.kind = "expand" -> expandEvaluate(rule, off, txt, t, basegrammar, d)
         [] rule.kind = "match" -> matchEvaluate(rule, off, txt, t, basegrammar, d)
         [] OTHER -> Res(<< >>, 0, "panic", << >>, << >>)

RECURSIVE tryRules(_, _, _, _, _, _, _, _)
RECURSIVE tryRulesSkip(_, _, _, _, _, _, _, _)
\* the loop over top.rules going on to the next rule when one returns an error
tryRulesSkip(rules, k, off, txt, lo, t, basegrammar, d) ==
  IF k > Len(rules) THEN Res(t, 0, "ok", << >>, << >>)
  ELSE Bind(evaluate(rules[k], off + lo, SubSeq(txt, lo + 1, Len(txt)),
                     t, basegrammar, d + 1), LAMBDA r :
         LET tried == Logged("try", rules[k], off + lo, t, TRUE)
         IN IF r.st = "err"
            THEN After(r.toks, tried \o r.log,
                       tryRulesSkip(rules, k + 1, off, txt, lo, t, basegrammar, d))
            ELSE IF r.st # "ok" THEN Res(<< >>, 0, r.st, r.toks, tried \o r.log)
            ELSE IF r.adv # 0 THEN After(<< >>, tried, r)
            ELSE After(r.toks, tried \o r.log,
                       tryRulesSkip(rules, k + 1, off, txt, lo, r.top, basegrammar, d)))

\* TokenizeSequence, the loop `for _, rule := range top.rules`, from rule k
\* on; `rules` is the list the loop was started on, t the current stack.
tryRules(rules, k, off, txt, lo, t, basegrammar, d) ==
  IF k > Len(rules) THEN Res(t, 0, "ok", << >>, << >>)
  ELSE Bind(evaluate(rules[k], off + lo, SubSeq(txt, lo + 1, Len(txt)),
                     t, basegrammar, d + 1), LAMBDA r :
         LET tried == Logged("try", rules[k], off + lo, t, TRUE)
         IN IF r.st # "ok" THEN Res(<< >>, 0, r.st, r.toks, tried \o r.log)
            ELSE IF r.adv # 0 THEN After(<< >>, tried, r)
            ELSE After(r.toks, tried \o r.log,
                       tryRules(rules, k + 1, off, txt, lo, r.top, basegrammar, d)))

\* an iteration's outcome: the result, the new cursor, was a filler emitted
Iter(r, lo, filler) ==
  [top |-> r.top, adv |-> r.adv, st |-> r.st, toks |-> r.toks, log |-> r.log,
   lineoffset |-> lo, filler |-> filler]

\* the iteration with `lineoffset++` in place of `lineoffset += adv`
TokenizeIterByOne(off, txt, lo, t, basegrammar, d) ==
  IF t = << >> THEN Iter(Res(<< >>, 0, "panic", << >>, << >>), lo, FALSE)
  ELSE Bind(tryRules(Top(t).rules, 1, off, txt, lo, t, basegrammar, d), LAMBDA r :
         IF r.st # "ok" THEN Iter(r, lo, FALSE)
         ELSE IF r.adv # 0 THEN Iter(r, lo + 1, FALSE)
         ELSE Iter([r EXCEPT !.toks = @ \o <<Token("", lo + off, 1, 0)>>],
                   lo + 1, TRUE))

\* the iteration without the yield of the filler token
TokenizeIterNoFiller(off, txt, lo, t, basegrammar, d) ==
  IF t = << >> THEN Iter(Res(<< >>, 0, "panic", << >>, << >>), lo, FALSE)
  ELSE Bind(tryRules(Top(t).rules, 1, off, txt, lo, t, basegrammar, d), LAMBDA r :
         IF r.st # "ok" THEN Iter(r, lo, FALSE)
         ELSE IF r.adv # 0
         THEN Iter(r, IF r.adv > 0 THEN lo + r.adv ELSE lo, FALSE)
         ELSE Iter(r, lo + 1, TRUE))

\* TokenizeSequence, one iteration of `for lineoffset < len(text)`
TokenizeIter(off, txt, lo, t, basegrammar, d) ==
  IF t = << >> THEN Iter(Res(<< >>, 0, "panic", << >>, << >>), lo, FALSE)
  ELSE Bind(tryRules(Top(t).rules, 1, off, txt, lo, t, basegrammar, d), LAMBDA r :
         IF r.st # "ok" THEN Iter(r, lo, FALSE)
         ELSE IF r.adv # 0
         THEN Iter(r, IF r.adv > 0 THEN lo + r.adv ELSE lo, FALSE)
         ELSE Iter([r EXCEPT !.toks = @ \o <<Token("", lo + off, 1, 0)>>],
                   lo + 1, TRUE))

\* TokenizeSequence from cursor lo to the end of txt
TokenizeLoop(off, txt, lo, t, basegrammar, d) ==
  IF d > MaxCallDepth THEN Res(<< >>, 0, "overflow", << >>, << >>)
  ELSE IF lo >= Len(txt) THEN Res(t, 0, "ok", << >>, << >>)
  ELSE Bind(TokenizeIter(off, txt, lo, t, basegrammar, d), LAMBDA it :
         IF it.st # "ok" THEN Res(<< >>, 0, it.st, it.toks, it.log)
         ELSE After(it.toks, it.log,
                    TokenizeLoop(off, txt, it.lineoffset, it.top, basegrammar, d)))

\* TokenizeSequence(offset, text, top, yield, basegrammar)
TokenizeSequence(off, txt, t, basegrammar) ==
  TokenizeLoop(off, txt, 0, t, basegrammar, 0)

\* ------------------------------------------------------------ modelled inputs
Pat(name, match) == [RJ EXCEPT !.name = name, !.match = match]

Inc(include) == [RJ EXCEPT !.include = include]

Block(name, begin, end, pats) ==
  [RJ EXCEPT !.name = name, !.begin = begin, !.end = end, !.patterns = pats]

File(j) == [ok |-> TRUE, json |-> j]

\* a file that neither json.Unmarshal nor plist.Unmarshal accepts
BadFile == [ok |-> FALSE, json |-> GrammarJSON("", << >>, << >>, << >>)]

NoRepo == << >>

Entry(ft, index) == [ft |-> ft, index |-> index]

\* begin=\( end=\) around `a`
BlockGrammar ==
  GrammarJSON("source.blk", << <<".", "blk">> >>,
              <<Block("block", "\\(", "\\)", <<Pat("id", "a")>>)>>, NoRepo)

\* begin=/* end=*/ around TODO
CommentGrammar ==
  GrammarJSON("source.c", << <<"c">> >>,
              <<Block("comment", "/\\*", "\\*/", <<Pat("todo", "TODO")>>)>>, NoRepo)

\* a block whose body includes the grammar itself
NestGrammar ==
  GrammarJSON("source.nest", << <<"nest">> >>,
              <<Block("block", "\\(", "\\)", <<Inc(<<"$self">>)>>), Pat("id", "a")>>,
              NoRepo)

\* a root pattern that includes the grammar itself
LoopGrammar ==
  GrammarJSON("source.loop", << <<"loop">> >>,
              <<Pat("id", "a"), Inc(<<"$self">>)>>, NoRepo)

\* includes of a repository rule that exists and of one that does not
RepoGrammar ==
  GrammarJSON("source.repo", << <<"repo">> >>,
              <<Inc(<<"#", "foo">>), Pat("par", "\\("), Inc(<<"#", "nope">>)>>,
              (<<"foo">> :> Pat("id", "a")))

\* source.b includes source.a, and a scope no file declares
GrammarA == GrammarJSON("source.a", << <<"a">> >>, <<Pat("a.id", "a")>>, NoRepo)

GrammarB ==
  GrammarJSON("source.b", << <<"b">> >>,
              <<Inc(<<"source.a">>), Pat("b.id", "b"), Inc(<<"source.zz">>)>>, NoRepo)

\* captures on nested groups and on group 0
CapsGrammar ==
  GrammarJSON("source.caps", << <<"caps">> >>,
              <<[Pat("ab", "(a)(b)") EXCEPT !.captures =
                   MapOf(<<"1">> :> [RJ EXCEPT !.name = "c1"])],
                [Pat("m", "((a))") EXCEPT !.captures =
                   MapOf((<<"1">> :> [RJ EXCEPT !.name = "x"])
                         @@ (<<"2">> :> [RJ EXCEPT !.name = "y",
                                                   !.patterns = <<Pat("id", "a")>>]))],
                [Pat("", "(\\()") EXCEPT !.captures =
                   MapOf((<<"0">> :> [RJ EXCEPT !.name = "p0"])
                         @@ (<<"1">> :> [RJ EXCEPT !.name = "p1"]))],
                [Pat("", "(?=(b))") EXCEPT !.captures =
                   MapOf(<<"1">> :> [RJ EXCEPT !.name = "la"])]>>,
              NoRepo)

\* a block that names its captures with the `captures` key
AliasGrammar ==
  GrammarJSON("source.alias", << <<"alias">> >>,
              <<[Block("block", "(\\()", "(\\))", <<Pat("id", "a")>>)
                   EXCEPT !.captures = MapOf(<<"1">> :> [RJ EXCEPT !.name = "paren"])]>>,
              NoRepo)

\* a block without a scope name
AnonGrammar ==
  GrammarJSON("source.anon", << <<"anon">> >>,
              <<Block("", "\\(", "\\)", <<Pat("id", "a")>>), Pat("", "b")>>, NoRepo)

\* a while block
WhileGrammar ==
  GrammarJSON("source.q", << <<"q">> >>,
              <<[RJ EXCEPT !.name = "quote", !.begin = "^>", !.while = "^>",
                           !.patterns = <<Pat("line", ".+")>>]>>, NoRepo)

\* source.base includes a repository block of source.other, whose body and
\* whose captures include `$self` and `$base`
BaseGrammar ==
  GrammarJSON("source.base", << <<"base">> >>,
              <<Pat("base.id", "a"), Inc(<<"source.other", "#", "blk">>)>>, NoRepo)

OtherGrammar ==
  GrammarJSON("source.other", << <<"other">> >>,
              <<[Pat("other.ab", "(a)(b)") EXCEPT !.captures =
                   MapOf((<<"1">> :> [RJ EXCEPT !.patterns = <<Inc(<<"$base">>)>>])
                         @@ (<<"2">> :> [RJ EXCEPT !.patterns = <<Inc(<<"$self">>)>>]))],
                Pat("other.id", "b"),
                Inc(<<"#", "blk">>)>>,
              (<<"blk">> :> Block("other.block", "\\(", "\\)",
                                  <<Inc(<<"$self">>), Inc(<<"$base">>)>>)))

\* a pattern that fails at match time, in a capture and in a block
BoomGrammar ==
  GrammarJSON("source.boom", << <<"boom">> >>,
              <<[Pat("cap", "(a)") EXCEPT !.captures =
                   MapOf(<<"1">> :> [RJ EXCEPT !.patterns = <<Pat("boom", "(a*)*b")>>])],
                Block("blk", "\\(", "\\)", <<Pat("boom", "(a*)*b")>>)>>, NoRepo)

\* two files that declare the same scope; the first includes the scope
DupFirst ==
  GrammarJSON("source.dup", << <<".", "d">> >>,
              <<Pat("first", "a"), Inc(<<"source.dup">>)>>, NoRepo)

DupSecond ==
  GrammarJSON("source.dup", << <<"d">> >>,
              <<Pat("second", "a"), Pat("second.b", "b")>>, NoRepo)

\* a block with an inner pattern that matches what the end pattern matches
EndFirstGrammar ==
  GrammarJSON("source.endfirst", << <<"ef">> >>,
              <<Block("block", "\\(", "\\)", <<Pat("close", "\\)"), Pat("id", "a")>>)>>,
              NoRepo)

\* a block whose begin is a lookahead and whose body includes the grammar,
\* and a block whose end matches the empty string
ZeroGrammar ==
  GrammarJSON("source.zero", << <<"zero">> >>,
              <<Block("look", "(?=a)", "b", <<Inc(<<"$self">>), Pat("id", "a")>>),
                Block("opt", "\\(", "b*", <<Pat("in", "a")>>)>>, NoRepo)

\* a capture whose children are a block that begins with a lookahead and a
\* match
SubGrammar ==
  GrammarJSON("source.sub", << <<"sub">> >>,
              <<[Pat("w", "(a)") EXCEPT !.captures =
                   MapOf(<<"1">> :> [RJ EXCEPT !.name = "c",
                                               !.patterns =
                                                 <<Block("look", "(?=a)", "b", << >>),
                                                   Pat("id", "a")>>])]>>,
              NoRepo)

\* a block whose begin has a capture without a scope name and a block
\* whose begin has a capture with one
BeginCapGrammar ==
  GrammarJSON("source.begincap", << <<"bc">> >>,
              <<[Block("block", "(\\()", "\\)", << >>)
                   EXCEPT !.beginCaptures = MapOf(<<"1">> :> RJ)],
                [Block("named", "(a)", "b", << >>)
                   EXCEPT !.beginCaptures =
                     MapOf(<<"1">> :> [RJ EXCEPT !.name = "n"])]>>,
              NoRepo)

\* three lines, the second one fails
BoomText == <<"\n", "a", "\n", "a">>

Scenario(fs, entries, alphabet, extra) ==
  [files |-> fs, entries |-> entries, alphabet |-> alphabet, extra |-> extra]

TodoText ==
  <<"a", " ", "/", "*", " ", "T", "O", "D", "O", " ", "*", "/", " ", "b">>

\* two lines that start with `>` and a line that does not
QuoteText == <<">", "a", "\n", ">", "a", "\n", "a">>

Scenarios ==
  << Scenario(<<File(BlockGrammar)>>, {Entry(<<"blk">>, 0)}, {"(", "a", ")", "\n"}, {}),
     Scenario(<<BadFile, File(CommentGrammar)>>, {Entry(<<"c">>, 0), Entry(<<"c">>, 1), Entry(<<"c">>, -1)},
              {"/", "*"}, {TodoText}),
     Scenario(<<File(NestGrammar)>>, {Entry(<<"nest">>, 0)}, {"(", "a", ")"}, {}),
     Scenario(<<File(LoopGrammar)>>, {Entry(<<"loop">>, 0)}, {"a", "("}, {}),
     Scenario(<<File(RepoGrammar)>>, {Entry(<<"repo">>, 0)}, {"a", "(", "b"}, {}),
     Scenario(<<File(GrammarA), File(GrammarB)>>, {Entry(<<"b">>, 0)},
              {"a", "b", "("}, {}),
     Scenario(<<File(CapsGrammar)>>, {Entry(<<"caps">>, 0)}, {"a", "(", "b"}, {}),
     Scenario(<<File(AliasGrammar)>>, {Entry(<<"alias">>, 0)}, {"(", "a", ")"}, {}),
     Scenario(<<File(WhileGrammar)>>, {Entry(<<"q">>, 0)}, {">", "a", "\n"},
              {QuoteText}),
     Scenario(<<File(AnonGrammar)>>, {Entry(<<"anon">>, 0)}, {"(", ")", "b"}, {}),
     Scenario(<<File(BaseGrammar), File(OtherGrammar)>>, {Entry(<<"base">>, 0)},
              {"a", "b", "("}, {}),
     Scenario(<<File(BoomGrammar)>>, {Entry(<<"boom">>, 0)}, {"a", "(", "\n"},
              {BoomText}),
     Scenario(<<File(DupFirst), BadFile, File(DupSecond), BadFile>>,
              {Entry(<<"d">>, 0), Entry(<<"d">>, 1), Entry(<<"d">>, 2)},
              {"a", "b"}, {}),
     Scenario(<<File(EndFirstGrammar)>>, {Entry(<<"ef">>, 0)}, {"(", ")", "a"}, {}),
     Scenario(<<File(ZeroGrammar)>>, {Entry(<<"zero">>, 0)}, {"a", "b", "("}, {}),
     Scenario(<<File(SubGrammar)>>, {Entry(<<"sub">>, 0)}, {"a", "b"}, {}),
     Scenario(<<File(BeginCapGrammar)>>, {Entry(<<"bc">>, 0)}, {"(", "a", "b"}, {}) >>

Texts(alphabet, n) == UNION {[1..k -> alphabet] : k \in 0..n}

\* --------------------------------------------------------------- operations
NoIter ==
  [from |-> 0, to |-> 0, adv |-> 0, st |-> "none", filler |-> FALSE,
   toks |-> << >>, log |-> << >>, before |-> << >>]

NoResult == [returned |-> FALSE, tokens |-> << >>, err |-> FALSE]

Init ==
  \E s \in 1..Len(Scenarios) :
    /\ files = Scenarios[s].files
    /\ entry \in Scenarios[s].entries
    /\ input \in Texts(Scenarios[s].alphabet, MaxLen) \cup Scenarios[s].extra
    /\ ioerr = FALSE
    /\ nloaded = 0
    /\ scopes = << >>
    /\ filetypes = << >>
    /\ pc = "load"
    /\ base = 0
    /\ rest = << >>
    /\ text = << >>
    /\ offset = 0
    /\ lineoffset = 0
    /\ top = << >>
    /\ tokens = << >>
    /\ result = NoResult
    /\ last = NoIter
    /\ iters = 0
    /\ matched = {} /\ begun = {}
    /\ tm = << >>
    /\ adds = << >>
    /\ mpc = "off"
    /\ ipos = 0
    /\ prev = << >>
    /\ yielded = << >>
    /\ compileIn = [kind |-> "none"]
    /\ compileOut = [st |-> "none"]
    /\ procs = << >>

RECURSIVE TrimLeftDots(_)
\* strings.TrimLeft(ft, ".")
TrimLeftDots(ft) ==
  IF ft # << >> /\ ft[1] = "." THEN TrimLeftDots(Tail(ft)) ELSE ft

RECURSIVE Register(_, _, _, _)
\* NewLoader, the loop over grm.FileTypes from the k-th on
Register(fts, idx, types, k) ==
  IF k > Len(types) THEN fts
  ELSE LET ft == TrimLeftDots(types[k])
           old == IF ft \in DOMAIN fts THEN fts[ft] ELSE << >>
       IN Register((ft :> Append(old, idx)) @@ fts, idx, types, k + 1)

\* NewLoader keeping the first grammar registered for a scope
SetScopeKeepFirst(sc, name, idx) == sc @@ (name :> idx)

\* NewLoader, `loader.scopes[grm.ScopeName] = grm`
SetScope(sc, name, idx) == (name :> idx) @@ sc

\* NewLoader, one iteration of `for pathname := range paths`
LoadFile ==
  /\ pc = "load"
  /\ nloaded < Len(files)
  /\ nloaded' = nloaded + 1
  /\ IF files[nloaded + 1].ok
     THEN /\ scopes' = SetScope(scopes, files[nloaded + 1].json.ScopeName,
                                nloaded + 1)
          /\ filetypes' = Register(filetypes, nloaded + 1,
                                   files[nloaded + 1].json.FileTypes, 1)
     ELSE UNCHANGED <<scopes, filetypes>>
  /\ UNCHANGED <<files, entry, input, ioerr, pc, base, rest, text, offset, lineoffset,
                 top, tokens, result, last, iters, matched, begun>>
  /\ UNCHANGED <<mvars, cvars, pvars>>

\* Loader.FromFileType: [st, g]
FromFileType(ft, index) ==
  IF ft \notin DOMAIN filetypes \/ index >= Len(filetypes[ft]) THEN [st |-> "err"]
  ELSE IF index < 0 THEN [st |-> "panic"]
  ELSE CompileGrammar(filetypes[ft][index + 1], files[filetypes[ft][index + 1]].json)

\* Grammar.StackItem
StackItem(g) == <<Frame(<<g.root>>, 0)>>

\* the caller: FromFileType, then TokenizeReader up to its first Scan
Open ==
  /\ pc = "load"
  /\ nloaded = Len(files)
  /\ \E g \in {FromFileType(entry.ft, entry.index)} :
        IF g.st = "ok"
        THEN /\ base' = g.id
             /\ top' = StackItem(g)
             /\ rest' = input
             /\ pc' = "scan"
        ELSE /\ pc' = IF g.st = "panic" THEN "panicked" ELSE "nogrammar"
             /\ UNCHANGED <<base, top, rest>>
  /\ UNCHANGED <<files, entry, input, ioerr, nloaded, scopes, filetypes, text, offset,
                 lineoffset, tokens, result, last, iters, matched, begun>>
  /\ UNCHANGED <<mvars, cvars, pvars>>

\* the split function: a line ends after its newline byte, or at the end
LineLen(data) ==
  IF \E i \in 1..Len(data) : data[i] = "\n"
  THEN CHOOSE i \in 1..Len(data) :
         data[i] = "\n" /\ \A k \in 1..(i - 1) : data[k] # "\n"
  ELSE Len(data)

\* the reader's Read returns an error after n more bytes: the scanner keeps
\* the error to itself, delivers the bytes it has as lines, the last one
\* without its newline, and then Scan returns false as at the end of input
ReadFail ==
  /\ pc = "scan"
  /\ ~ioerr
  /\ rest # << >>
  /\ \E n \in 0..(Len(rest) - 1) :
       /\ rest' = SubSeq(rest, 1, n)
       /\ input' = SubSeq(input, 1, Len(input) - Len(rest) + n)
  /\ ioerr' = TRUE
  /\ UNCHANGED <<files, entry, nloaded, scopes, filetypes, pc, base, text,
                 offset, lineoffset, top, tokens, result, last, iters, matched, begun>>
  /\ UNCHANGED <<mvars, cvars, pvars>>

\* TokenizeReader: scanner.Scan() delivers a line; TokenizeSequence starts
Scan ==
  /\ pc = "scan"
  /\ rest # << >>
  /\ text' = SubSeq(rest, 1, LineLen(rest))
  /\ rest' = SubSeq(rest, LineLen(rest) + 1, Len(rest))
  /\ lineoffset' = 0
  /\ pc' = "seq"
  /\ iters' = 0
  /\ UNCHANGED <<files, entry, input, ioerr, nloaded, scopes, filetypes, base, offset,
                 top, tokens, result, last, matched, begun>>
  /\ UNCHANGED <<mvars, cvars, pvars>>

\* the begin matches of an iteration whose frame is on the stack it returns:
\* where the begin matched, its length, the height of the stack with the
\* frame, the frame's rules and whether the begin rule has a capture with
\* a scope name
Begun(it) ==
  {[pos |-> it.log[i].pos, len |-> it.log[i].len,
    height |-> Len(it.log[i].after), rules |-> it.log[i].rule.rules,
    named |-> \E c \in 1..Len(it.log[i].rule.captures) :
                 /\ it.log[i].rule.captures[c].kind # "nil"
                 /\ it.log[i].rule.captures[c].name # ""] :
     i \in {k \in 1..Len(it.log) :
              /\ it.log[k].ev = "match" /\ it.log[k].ok
              /\ it.log[k].rule.operation = "opPush"
              /\ Len(it.log[k].after) <= Len(it.top)
              /\ SubSeq(it.top, 1, Len(it.log[k].after)) = it.log[k].after}}

\* TokenizeSequence: one iteration of the outer loop, with every evaluate
\* call it makes; an error makes TokenizeSequence and TokenizeReader return
Step ==
  /\ pc = "seq"
  /\ lineoffset < Len(text)
  /\ \E it \in {TokenizeIter(offset, text, lineoffset, top, base, 0)} :
        /\ tokens' = tokens \o it.toks
        /\ top' = it.top
        /\ lineoffset' = it.lineoffset
        /\ last' = [from |-> lineoffset, to |-> it.lineoffset, adv |-> it.adv,
                    st |-> it.st, filler |-> it.filler, toks |-> it.toks,
                    log |-> it.log, before |-> top]
        /\ pc' = CASE it.st = "ok" -> "seq"
                   [] it.st = "err" -> "failed"
                   [] OTHER -> "crashed"
        /\ result' = IF it.st = "err"
                     THEN [returned |-> TRUE, tokens |-> << >>, err |-> TRUE]
                     ELSE result
        /\ matched' = IF it.st = "ok" /\ it.adv > 0
                      THEN matched \cup
                           ((offset + lineoffset)..(offset + it.lineoffset - 1))
                      ELSE matched
        /\ begun' = IF it.st = "ok" THEN begun \cup Begun(it) ELSE begun
  /\ iters' = iters + 1
  /\ UNCHANGED <<files, entry, input, ioerr, nloaded, scopes, filetypes, base, rest,
                 text, offset>>
  /\ UNCHANGED <<mvars, cvars, pvars>>

\* TokenizeReader starting every line at offset 0
NextOffsetPerLine(off, txt) == 0

\* TokenizeReader counting one byte more than the line holds
NextOffsetPastLine(off, txt) == off + Len(txt) + 1

\* TokenizeReader, `offset += len(text)`
NextOffset(off, txt) == off + Len(txt)

\* TokenizeSequence returns; TokenizeReader adds the line's length
Return ==
  /\ pc = "seq"
  /\ lineoffset >= Len(text)
  /\ offset' = NextOffset(offset, text)
  /\ pc' = "scan"
  /\ UNCHANGED <<files, entry, input, ioerr, nloaded, scopes, filetypes, base, rest,
                 text, lineoffset, top, tokens, result, last, iters, matched, begun>>
  /\ UNCHANGED <<mvars, cvars, pvars>>

RECURSIVE Insert(_, _)
\* insertion sort's inner loop: tok moves left past every element that
\* compares greater than it
Insert(sorted, tok) ==
  IF sorted # << >> /\ CompareToken(tok, sorted[Len(sorted)]) < 0
  THEN Append(Insert(SubSeq(sorted, 1, Len(sorted) - 1), tok), sorted[Len(sorted)])
  ELSE Append(sorted, tok)

RECURSIVE SortFunc(_)
\* slices.SortFunc(tokens, CompareToken): for up to 12 elements the
\* standard library's pdqsort is this insertion sort
SortFunc(toks) ==
  IF toks = << >> THEN << >>
  ELSE Insert(SortFunc(SubSeq(toks, 1, Len(toks) - 1)), toks[Len(toks)])

\* TokenizeReader: Scan returns false; the tokens are sorted and returned
Finish ==
  /\ pc = "scan"
  /\ rest = << >>
  /\ result' = [returned |-> TRUE, tokens |-> SortFunc(tokens), err |-> FALSE]
  /\ pc' = "done"
  /\ UNCHANGED <<files, entry, input, ioerr, nloaded, scopes, filetypes, base, rest,
                 text, offset, lineoffset, top, tokens, last, iters, matched, begun>>
  /\ UNCHANGED <<mvars, cvars, pvars>>

Next == LoadFile \/ Open \/ ReadFail \/ Scan \/ Step \/ Return \/ Finish

Spec == Init /\ [][Next]_vars

\* ------------------------------------------------------------------ Mapper
\* The Token objects a caller passes to Mapper.Add; a *Token is the index of
\* its object here.  Objects 2 and 5 have equal fields.
TokPool ==
  << Token("x", 0, 3, 2), Token("y", 1, 1, 3), Token("", 1, 1, 0),
     Token("z", 2, 3, 2), Token("y", 1, 1, 3), Token("q", 1, 0, 3) >>

Deref(p) == TokPool[p]

\* the loader, the tokenizer and the compiler are not in use
TokenizerIdle ==
  /\ files = << >> /\ entry = Entry(<< >>, 0) /\ input = << >> /\ ioerr = FALSE
  /\ nloaded = 0 /\ scopes = << >> /\ filetypes = << >>
  /\ pc = "off" /\ base = 0 /\ rest = << >> /\ text = << >>
  /\ offset = 0 /\ lineoffset = 0 /\ top = << >> /\ tokens = << >>
  /\ result = NoResult /\ last = NoIter /\ iters = 0 /\ matched = {} /\ begun = {}
  /\ procs = << >>

CompilerIdle == compileIn = [kind |-> "none"] /\ compileOut = [st |-> "none"]

\* make(Mapper, n)
InitMapper ==
  /\ TokenizerIdle
  /\ CompilerIdle
  /\ \E n \in 0..MaxMapLen : tm = [k \in 1..n |-> << >>]
  /\ adds = << >>
  /\ mpc = "add"
  /\ ipos = 0
  /\ prev = << >>
  /\ yielded = << >>

RECURSIVE AddLoop(_, _, _)
\* Mapper.Add, the loop `for idx := range tok.Length` from idx on
AddLoop(m, p, idx) ==
  IF idx >= Deref(p).Length \/ idx + Deref(p).Start >= Len(m) THEN m
  ELSE AddLoop([m EXCEPT ![idx + Deref(p).Start + 1] = Append(@, p)], p, idx + 1)

\* Mapper.Add that stores tokens of empty scope as well
AddAny(m, p) == AddLoop(m, p, 0)

\* Mapper.Add
Add(m, p) == IF Deref(p).Scope = "" THEN m ELSE AddLoop(m, p, 0)

MapperAdd ==
  /\ mpc = "add"
  /\ Len(adds) < MaxAdds
  /\ \E p \in 1..Len(TokPool) :
        /\ tm' = Add(tm, p)
        /\ adds' = Append(adds, p)
  /\ UNCHANGED <<mpc, ipos, prev, yielded, tvars, cvars, pvars>>

RECURSIVE InsertPtr(_, _)
InsertPtr(sorted, p) ==
  IF sorted # << >> /\ CompareToken(Deref(p), Deref(sorted[Len(sorted)])) < 0
  THEN Append(InsertPtr(SubSeq(sorted, 1, Len(sorted) - 1), p), sorted[Len(sorted)])
  ELSE Append(sorted, p)

RECURSIVE SortPtrs(_)
\* slices.SortFunc(cur, CompareToken) on a list of *Token (insertion sort for
\* up to 12 elements)
SortPtrs(ps) ==
  IF ps = << >> THEN << >>
  ELSE InsertPtr(SortPtrs(SubSeq(ps, 1, Len(ps) - 1)), ps[Len(ps)])

\* the test of Iter comparing the lengths of the lists only
DiffersInLen(p, cur) == Len(p) # Len(cur)

\* Mapper.Iter, the test `!slices.Equal(prev, cur)` (nil equals empty)
Differs(p, cur) == p # cur

\* the function Iter returned is called
MapperIter ==
  /\ mpc = "add"
  /\ mpc' = "iter"
  /\ ipos' = 0
  /\ prev' = << >>
  /\ yielded' = << >>
  /\ UNCHANGED <<tm, adds, tvars, cvars, pvars>>

\* Mapper.Iter, one iteration of `for i, cur := range tm`; the consumer
\* asks for more
MapperIterStep ==
  /\ mpc = "iter"
  /\ ipos < Len(tm)
  /\ \E cur \in {SortPtrs(tm[ipos + 1])} :
        /\ tm' = [tm EXCEPT ![ipos + 1] = cur]
        /\ IF Differs(prev, cur)
           THEN /\ yielded' = Append(yielded, [i |-> ipos, toks |-> cur])
                /\ prev' = cur
           ELSE UNCHANGED <<yielded, prev>>
  /\ ipos' = ipos + 1
  /\ UNCHANGED <<adds, mpc, tvars, cvars, pvars>>

\* Mapper.Iter, the loop is over
MapperIterEnd ==
  /\ mpc = "iter"
  /\ ipos = Len(tm)
  /\ mpc' = "end"
  /\ UNCHANGED <<tm, adds, ipos, prev, yielded, tvars, cvars, pvars>>

NextMapper == MapperAdd \/ MapperIter \/ MapperIterStep \/ MapperIterEnd

SpecMapper == InitMapper /\ [][NextMapper]_vars

\* ---------------------------------------------------- the compiler, called
MapperIdle ==
  /\ tm = << >> /\ adds = << >> /\ mpc = "off"
  /\ ipos = 0 /\ prev = << >> /\ yielded = << >>

\* the keys of the modelled captures maps, as the bytes of the key
CapKeys == {<<"0">>, <<"1">>, <<"2">>, <<"3">>, <<"1", "0">>, <<"x">>}

\* the capture the modelled maps have at a key
CapAt(key) ==
  CASE key = <<"0">> -> [RJ EXCEPT !.name = "whole"]
    [] key = <<"1">> -> [RJ EXCEPT !.name = "A", !.patterns = <<Pat("id", "a")>>]
    [] key = <<"2">> -> [RJ EXCEPT !.name = "half",
                                   !.patterns = <<[RJ EXCEPT !.begin = "\\("]>>]
    [] key = <<"3">> -> [RJ EXCEPT !.name = "B"]
    [] key = <<"1", "0">> -> [RJ EXCEPT !.patterns = <<Inc(<<"$self">>)>>]
    [] OTHER -> [RJ EXCEPT !.name = "bad"]

CaptureMaps ==
  {NilMap} \cup {MapOf([key \in K |-> CapAt(key)]) : K \in SUBSET CapKeys}

\* rules with every combination of the keys compileRule looks at; "(" is a
\* pattern Oniguruma rejects
RuleInputs ==
  {[RJ EXCEPT !.include = i, !.match = m, !.begin = b, !.end = e, !.while = w,
              !.patterns = ps] :
     i \in {<< >>, <<"$self">>}, m \in {"", "a", "("}, b \in {"", "\\("},
     e \in {"", "\\)"}, w \in {"", "^>"},
     ps \in {<< >>, <<Pat("id", "a")>>, <<[RJ EXCEPT !.end = "\\)"]>>}}

InitCompile ==
  /\ TokenizerIdle
  /\ MapperIdle
  /\ compileIn \in {[kind |-> "captures", j |-> j] : j \in CaptureMaps}
                   \cup {[kind |-> "rule", j |-> j] : j \in RuleInputs}
  /\ compileOut = [st |-> "none"]

\* compileCaptures(grammar, j) is called and returns
CallCompileCaptures ==
  /\ compileIn.kind = "captures"
  /\ compileOut.st = "none"
  /\ compileOut' = compileCaptures(1, compileIn.j)
  /\ UNCHANGED <<compileIn, tvars, mvars, pvars>>

\* compileRule(grammar, j) is called and returns
CallCompileRule ==
  /\ compileIn.kind = "rule"
  /\ compileOut.st = "none"
  /\ compileOut' = compileRule(1, compileIn.j)
  /\ UNCHANGED <<compileIn, tvars, mvars, pvars>>

NextCompile == CallCompileCaptures \/ CallCompileRule

SpecCompile == InitCompile /\ [][NextCompile]_vars

\* ------------------------------------------ concurrent TokenizeReader calls
\* the goroutines that call TokenizeReader on the one compiled grammar
Procs == {1, 2}

\* the loaders and the bytes the goroutines' readers are made of
ParScenarios ==
  << [files |-> <<File(BlockGrammar)>>, entry |-> Entry(<<"blk">>, 0),
      alphabet |-> {"(", ")", "\n"}],
     [files |-> <<File(GrammarA), File(GrammarB)>>, entry |-> Entry(<<"b">>, 0),
      alphabet |-> {"a", "b", "\n"}] >>

\* NewLoader is about to run; no goroutine has started
InitPar ==
  /\ MapperIdle
  /\ CompilerIdle
  /\ \E s \in 1..Len(ParScenarios) :
       /\ files = ParScenarios[s].files
       /\ entry = ParScenarios[s].entry
  /\ input = << >> /\ ioerr = FALSE
  /\ nloaded = 0 /\ scopes = << >> /\ filetypes = << >>
  /\ pc = "load" /\ base = 0 /\ rest = << >> /\ text = << >>
  /\ offset = 0 /\ lineoffset = 0 /\ top = << >> /\ tokens = << >>
  /\ result = NoResult /\ last = NoIter /\ iters = 0 /\ matched = {} /\ begun = {}
  /\ procs = << >>

\* the alphabet of the loaded scenario
ParAlphabet ==
  UNION {ParScenarios[s].alphabet :
           s \in {s \in 1..Len(ParScenarios) : ParScenarios[s].files = files}}

\* FromFileType once, then every goroutine enters TokenizeReader with the
\* grammar: `top := g.StackItem()`, `var tokens []*Token`, `offset := 0`
ParOpen ==
  /\ pc = "load"
  /\ procs = << >>
  /\ nloaded = Len(files)
  /\ \E g \in {FromFileType(entry.ft, entry.index)} :
       /\ g.st = "ok"
       /\ base' = g.id
       /\ \E ins \in [Procs -> Texts(ParAlphabet, MaxParLen)] :
            /\ Len(ins[1]) + Len(ins[2]) <= MaxParLen
            /\ procs' = [p \in Procs |->
                           [pc |-> "scan", input |-> ins[p], rest |-> ins[p],
                            text |-> << >>, offset |-> 0, lineoffset |-> 0,
                            top |-> StackItem(g), tokens |-> << >>,
                            result |-> NoResult]]
  /\ pc' = "par"
  /\ UNCHANGED <<files, entry, input, ioerr, nloaded, scopes, filetypes, rest,
                 text, offset, lineoffset, top, tokens, result, last, iters,
                 matched, begun>>
  /\ UNCHANGED <<mvars, cvars>>

\* what a step of a goroutine leaves alone
ParFrame ==
  /\ UNCHANGED tvars
  /\ UNCHANGED <<mvars, cvars>>

\* the callback of every goroutine appending to one buffer
YieldShared(ps, p, toks) ==
  [q \in DOMAIN ps |-> [ps[q] EXCEPT !.tokens = @ \o toks]]

\* the callback TokenizeReader passes: `tokens = append(tokens, t)` on the
\* tokens of its own call
Yield(ps, p, toks) == [ps EXCEPT ![p].tokens = @ \o toks]

\* scanner.Scan() of goroutine p delivers a line
ParScan(p) ==
  /\ pc = "par"
  /\ procs[p].pc = "scan"
  /\ procs[p].rest # << >>
  /\ procs' = [procs EXCEPT
                 ![p].text = SubSeq(procs[p].rest, 1, LineLen(procs[p].rest)),
                 ![p].rest = SubSeq(procs[p].rest, LineLen(procs[p].rest) + 1,
                                    Len(procs[p].rest)),
                 ![p].lineoffset = 0,
                 ![p].pc = "seq"]
  /\ ParFrame

\* one iteration of the outer loop of goroutine p's TokenizeSequence
ParStep(p) ==
  /\ pc = "par"
  /\ procs[p].pc = "seq"
  /\ procs[p].lineoffset < Len(procs[p].text)
  /\ \E it \in {TokenizeIter(procs[p].offset, procs[p].text, procs[p].lineoffset,
                              procs[p].top, base, 0)} :
       procs' = [Yield(procs, p, it.toks) EXCEPT
                   ![p].top = it.top,
                   ![p].lineoffset = it.lineoffset,
                   ![p].pc = CASE it.st = "ok" -> "seq"
                               [] it.st = "err" -> "failed"
                               [] OTHER -> "crashed",
                   ![p].result = IF it.st = "err"
                                 THEN [returned |-> TRUE, tokens |-> << >>,
                                       err |-> TRUE]
                                 ELSE @]
  /\ ParFrame

\* goroutine p's TokenizeSequence returns; its offset moves on
ParReturn(p) ==
  /\ pc = "par"
  /\ procs[p].pc = "seq"
  /\ procs[p].lineoffset >= Len(procs[p].text)
  /\ procs' = [procs EXCEPT ![p].offset = NextOffset(@, procs[p].text),
                            ![p].pc = "scan"]
  /\ ParFrame

\* goroutine p's Scan returns false; its tokens are sorted and returned
ParFinish(p) ==
  /\ pc = "par"
  /\ procs[p].pc = "scan"
  /\ procs[p].rest = << >>
  /\ procs' = [procs EXCEPT
                 ![p].result = [returned |-> TRUE,
                                tokens |-> SortFunc(procs[p].tokens),
                                err |-> FALSE],
                 ![p].pc = "done"]
  /\ ParFrame

NextPar ==
  \/ LoadFile
  \/ ParOpen
  \/ \E p \in Procs : ParScan(p)
  \/ \E p \in Procs : ParStep(p)
  \/ \E p \in Procs : ParReturn(p)
  \/ \E p \in Procs : ParFinish(p)

SpecPar == InitPar /\ [][NextPar]_vars

\* ------------------------------------------------------------------ claims
Fillers(toks) == {i \in 1..Len(toks) : toks[i].Scope = ""}

Scoped(toks) == {i \in 1..Len(toks) : toks[i].Scope # ""}

Pops == {i \in 1..Len(last.log) :
           last.log[i].ev = "match" /\ last.log[i].ok
           /\ last.log[i].rule.operation = "opPop"}

\* the "match" log entries of the last iteration of rules without stack effect
Plain == {i \in 1..Len(last.log) :
            last.log[i].ev = "match" /\ last.log[i].ok
            /\ last.log[i].rule.operation = "opNOP"}

\* the whole-block token the pop logged as e has to emit, at depth d
BlockToken(e, d) ==
  Token(e.rule.name, Top(e.top).offset, e.pos + e.len - Top(e.top).offset, d)

\* C2: tokenizing a finite text terminates for every grammar that compiles,
\* include cycles included: no evaluation recurses without end.
C2_Terminates == pc # "crashed"

C4_SingleBlockToken ==
  \A i \in Pops :
    /\ last.log[i].after = Previous(last.log[i].top)
    /\ last.log[i].toks[Len(last.log[i].toks)]
         = BlockToken(last.log[i], Depth(last.log[i].top))
    /\ Cardinality({k \in 1..Len(last.log[i].toks) :
                      last.log[i].toks[k].Scope = last.log[i].rule.name}) = 1

\* the order of the spec: Start, then Length, then Depth, ascending
InOrder(a, b) ==
  \/ a.Start < b.Start
  \/ a.Start = b.Start /\ a.Length < b.Length
  \/ a.Start = b.Start /\ a.Length = b.Length /\ a.Depth <= b.Depth

Count(toks, tok) == Cardinality({i \in 1..Len(toks) : toks[i] = tok})

\* C5: the list TokenizeReader returns is in order (Start, then Length, then
\* Depth) at every pair of adjacent tokens, and holds exactly the tokens the
\* callback collected, each as often as it was emitted.
C5_SortedPermutation ==
  pc = "done" =>
    /\ result.returned /\ ~result.err
    /\ \A i \in 1..(Len(result.tokens) - 1) :
         InOrder(result.tokens[i], result.tokens[i + 1])
    /\ Len(result.tokens) = Len(tokens)
    /\ \A i \in 1..Len(tokens) :
         Count(result.tokens, tokens[i]) = Count(tokens, tokens[i])

\* the sort moved tokens, among them two that start at the same offset
C5_Witness ==
  /\ pc = "done"
  /\ result.tokens # tokens
  /\ \E i \in 1..(Len(result.tokens) - 1) :
       /\ result.tokens[i].Start = result.tokens[i + 1].Start
       /\ result.tokens[i].Length < result.tokens[i + 1].Length
  /\ \E i \in Fillers(tokens) : \E k \in Scoped(tokens) : i < k

\* C6: of all the tokens emitted, those of captured substrings included,
\* every token with empty scope has length 1 and no two of them start at
\* the same offset.
C6_FillersUnique ==
  \A i \in Fillers(tokens) :
    /\ tokens[i].Length = 1
    /\ \A k \in Fillers(tokens) : tokens[k].Start = tokens[i].Start => k = i

\* C7 as stated: when TokenizeReader has returned, every offset of the input
\* lies in the span of a returned token.
C7_Original ==
  pc = "done" =>
    \A p \in 0..(Len(input) - 1) :
      \E i \in 1..Len(result.tokens) :
        result.tokens[i].Start <= p /\ p < TokEnd(result.tokens[i])

\* C7 amended: when TokenizeReader has returned, every offset of the input
\* lies in a span a rule consumed with a positive advance or is the start of
\* a returned filler token of length 1; the offsets no rule consumed are all
\* under fillers.
C7_Coverage ==
  pc = "done" =>
    \A p \in 0..(Len(input) - 1) :
      \/ p \in matched
      \/ \E i \in Fillers(result.tokens) :
           result.tokens[i] = Token("", p, 1, 0)

\* a tokenization returned with a consumed offset, an offset under a filler
\* only, and an offset no returned token covers
C7_Witness ==
  /\ pc = "done"
  /\ \E p \in 0..(Len(input) - 1) : p \notin matched
  /\ \E p \in matched :
       \A i \in 1..Len(result.tokens) :
         ~(result.tokens[i].Start <= p /\ p < TokEnd(result.tokens[i]))

\* the begin/end and begin/while rules with a non-empty `captures` map among
\* the top-level patterns of the loaded files: <<file, pattern>>
AliasedBlocks ==
  {fk \in UNION {{<<f, k>> : k \in 1..Len(files[f].json.Patterns)} :
                   f \in {f \in 1..Len(files) : files[f].ok}} :
     LET j == files[fk[1]].json.Patterns[fk[2]]
     IN /\ j.include = << >> /\ j.match = ""
        /\ j.begin # "" /\ (j.end # "" \/ j.while # "")
        /\ MapLen(j.captures) > 0}

\* C8: in a grammar FromFileType has compiled, a begin/end rule with a
\* non-empty `captures` map is a block whose begin captures and end
\* captures are the compiled `captures` map.
C8_CapturesAlias ==
  \A fk \in {fk \in AliasedBlocks : fk[1] = base} :
    LET j == files[fk[1]].json.Patterns[fk[2]]
    IN \E r \in {compileRule(fk[1], j)} :
         \E c \in {compileCaptures(fk[1], j.captures)} :
           /\ r.st = c.st
           /\ r.st = "ok" => /\ r.rule.captures = c.caps
                             /\ r.rule.rules[1].captures = c.caps

\* the file a resolved include evaluates in (0: the loader has no such scope)
IncludeFile(rule) ==
  CASE rule.scopename \in {"", "$self"} -> rule.grammar
    [] rule.scopename = "$base" -> base
    [] OTHER -> IF rule.scopename \in DOMAIN scopes THEN scopes[rule.scopename] ELSE 0

\* the include names a scope the loader does not have, or a rule the target
\* grammar's repository does not have
Unresolved(rule) ==
  \/ IncludeFile(rule) = 0
  \/ /\ IncludeFile(rule) # 0
     /\ rule.rulename # << >>
     /\ rule.rulename \notin DOMAIN files[IncludeFile(rule)].json.Repository

\* C9: whenever an iteration evaluated an include that does not resolve,
\* TokenizeSequence returned an error at that include and TokenizeReader
\* returned it, without tokens.
C9_UnresolvedFails ==
  \A i \in 1..Len(last.log) :
    (last.log[i].ev = "include" /\ Unresolved(last.log[i].rule)) =>
      /\ i = Len(last.log)
      /\ last.st = "err"
      /\ pc = "failed"
      /\ result = [returned |-> TRUE, tokens |-> << >>, err |-> TRUE]

\* an include of an unknown rule, or of an unknown scope, was evaluated
\* after tokens had been emitted
C9_Witness ==
  /\ pc = "failed"
  /\ tokens # << >>
  /\ \E i \in 1..Len(last.log) :
       last.log[i].ev = "include" /\ Unresolved(last.log[i].rule)

\* two evaluations emit the same tokens and return the same advance, stack
\* and status
SameOutcome(a, b) ==
  a.toks = b.toks /\ a.adv = b.adv /\ a.top = b.top /\ a.st = b.st

\* the files whose grammar compiles
Compiled == {g \in 1..Len(files) : files[g].ok /\ GrammarOf(g).st = "ok"}

\* the include rule compileRule makes of the include string inc in grammar g
IncludeOf(g, inc) == compileRule(g, Inc(inc)).rule

\* C10: at every cursor position of the line, with the current stack, the
\* include `#foo` (also written `$self#foo`) of a grammar evaluates to the
\* same tokens, advance and stack as the rule compiled from the grammar's
\* repository entry foo, and the include `$self` (also written `#`) to the
\* same as trying the rules compiled from the grammar's root patterns in
\* order.
C10_IncludeInlines ==
  pc = "seq" =>
    \A g \in Compiled : \A lo \in 0..(Len(text) - 1) :
      LET txt == SubSeq(text, lo + 1, Len(text))
          pos == offset + lo
      IN /\ \A foo \in DOMAIN files[g].json.Repository :
              \A inc \in {<<"#">> \o foo, <<"$self", "#">> \o foo} :
                \E a \in {evaluate(IncludeOf(g, inc), pos, txt, top, base, 0)} :
                  \E b \in {evaluate(compileRule(g, files[g].json.Repository[foo]).rule,
                                     pos, txt, top, base, 1)} :
                    SameOutcome(a, b)
         /\ \A inc \in {<<"$self">>, <<"#">>} :
              \E a \in {evaluate(IncludeOf(g, inc), pos, txt, top, base, 0)} :
                \E b \in {expandLoop(compilePatterns(g, files[g].json.Patterns).rules,
                                     1, pos, txt, top, base, 1)} :
                  SameOutcome(a, b)

\* an iteration in which a resolved include of the grammar itself led to a
\* match that emitted a token and advanced
C10_Witness ==
  /\ pc = "seq"
  /\ last.st = "ok"
  /\ last.adv > 0
  /\ last.toks # << >>
  /\ \E i \in 1..Len(last.log) :
       /\ last.log[i].ev = "include"
       /\ last.log[i].rule.scopename \in {"", "$self"}
       /\ ~Unresolved(last.log[i].rule)
       /\ i < Len(last.log)
       /\ last.log[Len(last.log)].ev = "match"

\* C11: every include of `$base` that an iteration evaluated resolved to
\* the grammar TokenizeReader runs on, and every include of `$self` (or of
\* an empty scope) to the grammar that owns the include rule, whatever
\* grammar, block or capture the include is in; with source.base running,
\* "(ab" gives base.id for the `a` and other.id for the `b` captured by a
\* rule of source.other inside a block of source.other.
C11_BaseAndSelf ==
  /\ \A i \in 1..Len(last.log) :
       (last.log[i].ev = "include" /\ last.log[i].ok) =>
         /\ last.log[i].rule.scopename = "$base" => last.log[i].target = base
         /\ last.log[i].rule.scopename \in {"", "$self"} =>
              last.log[i].target = last.log[i].rule.grammar
  /\ (pc = "done" /\ files = Scenarios[11].files /\ input = <<"(", "a", "b">>) =>
       \E i, k \in 1..Len(result.tokens) :
         /\ result.tokens[i] = Token("base.id", 1, 1, 4)
         /\ result.tokens[k] = Token("other.id", 2, 1, 4)

\* an iteration inside a block of the other grammar evaluated `$base` of
\* that grammar while sub-tokenizing a capture, and `$self` as well
C11_Witness ==
  /\ pc = "seq"
  /\ Len(last.before) = 2
  /\ \E i, k \in 1..Len(last.log) :
       /\ last.log[i].ev = "include" /\ last.log[i].ok
       /\ last.log[i].rule.scopename = "$base"
       /\ last.log[i].rule.grammar # base
       /\ Len(last.log[i].top) = 3
       /\ last.log[k].ev = "include" /\ last.log[k].ok
       /\ last.log[k].rule.scopename = "$self"
       /\ last.log[k].rule.grammar # base
       /\ Len(last.log[k].top) = 3

\* C12: with begin=^> while=^> around .+, on two lines that start with `>`
\* and a third that does not, the block opened at offset 0 is open from then
\* on until the third line starts, and the token of the block, emitted when
\* the third line is reached, covers the two lines, [0,6).
C12_WhileBlock ==
  (files = Scenarios[9].files /\ input = QuoteText) =>
    /\ (pc \in {"seq", "scan"} /\ matched # {} /\ offset < 6) => Len(top) = 2
    /\ pc = "done" =>
         \E i \in 1..Len(result.tokens) :
           /\ result.tokens[i].Scope = "quote"
           /\ result.tokens[i].Start = 0
           /\ result.tokens[i].Length = 6

\* the token p points to has a scope and its span contains position i
Covers(p, i) ==
  /\ Deref(p).Scope # ""
  /\ Deref(p).Start <= i
  /\ i < TokEnd(Deref(p))

\* how often the tokens added so far put p at position i
CoverCount(p, i) == IF i >= 0 /\ Covers(p, i) THEN Count(adds, p) ELSE 0

\* C13: Iter yields at exactly the positions whose list of covering tokens
\* differs from that of the position before (empty before position 0), in
\* increasing order, each time with the added tokens covering the position
\* in (Start, Length, Depth) order; x=[0,3) and y=[1,2) over three bytes
\* give 0:[x], 1:[x,y], 2:[x].
C13_IterYields ==
  mpc \in {"iter", "end"} =>
    /\ {yielded[k].i : k \in 1..Len(yielded)}
         = {i \in 0..(ipos - 1) :
              \E p \in 1..Len(TokPool) : CoverCount(p, i) # CoverCount(p, i - 1)}
    /\ \A k \in 1..(Len(yielded) - 1) : yielded[k].i < yielded[k + 1].i
    /\ \A k \in 1..Len(yielded) :
         /\ \A n \in 1..(Len(yielded[k].toks) - 1) :
              InOrder(Deref(yielded[k].toks[n]), Deref(yielded[k].toks[n + 1]))
         /\ \A p \in 1..Len(TokPool) :
              Count(yielded[k].toks, p) = CoverCount(p, yielded[k].i)
    /\ (mpc = "end" /\ Len(tm) = 3 /\ adds = <<1, 2>>) =>
         yielded = << [i |-> 0, toks |-> <<1>>], [i |-> 1, toks |-> <<1, 2>>],
                      [i |-> 2, toks |-> <<1>>] >>

\* Iter went over three positions, skipped the second and yielded a list
\* that the sort had to reorder
C13_Witness ==
  /\ mpc = "end"
  /\ Len(tm) = 3
  /\ adds = <<4, 1>>
  /\ yielded = << [i |-> 0, toks |-> <<1>>], [i |-> 2, toks |-> <<1, 4>>] >>

\* C14: at every position below the Mapper's length the list holds exactly
\* the added tokens that have a scope and whose span contains the position,
\* each as often as it was added; tokens without scope and the parts of
\* spans beyond the length are not stored.
C14_MapperHolds ==
  \A i \in 0..(Len(tm) - 1) : \A p \in 1..Len(TokPool) :
    Count(tm[i + 1], p) = CoverCount(p, i)

\* a token without scope, a token that reaches beyond the Mapper's length
\* and a token inside it have been added
C14_Witness ==
  /\ mpc = "add"
  /\ Len(tm) = 3
  /\ \E k \in 1..Len(adds) : Deref(adds[k]).Scope = ""
  /\ \E k \in 1..Len(adds) :
       Covers(adds[k], 2) /\ TokEnd(Deref(adds[k])) > Len(tm)
  /\ \E i \in 1..Len(tm) : Len(tm[i]) = 2

\* the number a captures key of decimal digits denotes
KeyIndex(key) ==
  CASE key = <<"0">> -> 0 [] key = <<"1">> -> 1 [] key = <<"2">> -> 2
    [] key = <<"3">> -> 3 [] key = <<"1", "0">> -> 10 [] OTHER -> -1

\* C15: the array compileCaptures returns for a map of decimal keys has
\* length max_key+1, slot k is the capture compiled from key k (its name,
\* its compiled patterns) and every slot without a key is nil; keys
\* {"1","3"} give length 4 with slots 0 and 2 nil.
C15_CaptureSlots ==
  (compileIn.kind = "captures" /\ compileOut.st = "ok" /\ ~compileIn.j.isnil
   /\ DOMAIN compileIn.j.m # {}) =>
    LET m == compileIn.j.m
        res == compileOut.caps
    IN /\ \A key \in DOMAIN m : KeyIndex(key) >= 0
       /\ \A key \in DOMAIN m : Len(res) >= KeyIndex(key) + 1
       /\ \E key \in DOMAIN m : Len(res) = KeyIndex(key) + 1
       /\ \A k \in 0..(Len(res) - 1) :
            /\ (\A key \in DOMAIN m : KeyIndex(key) # k) => res[k + 1] = NilRule
            /\ \A key \in DOMAIN m :
                 KeyIndex(key) = k =>
                   /\ res[k + 1].kind = "match"
                   /\ res[k + 1].name = m[key].name
                   /\ res[k + 1].rules = compilePatterns(1, m[key].patterns).rules
       /\ DOMAIN m = {<<"1">>, <<"3">>} =>
            /\ Len(res) = 4
            /\ res[1] = NilRule /\ res[3] = NilRule
            /\ res[2].name = "A" /\ res[4].name = "B"

\* the map with keys "1" and "3" has been compiled
C15_Witness ==
  /\ compileIn.kind = "captures"
  /\ ~compileIn.j.isnil
  /\ DOMAIN compileIn.j.m = {<<"1">>, <<"3">>}
  /\ compileOut.st = "ok"
  /\ Len(compileOut.caps) = 4

\* C16: compileRule gives an include node when `include` is set, whatever
\* else is; else a match node when `match` is set; else a pushing block when
\* `begin` is set together with `end` or `while`; else an error when any of
\* `begin`, `end`, `while` is set; else an expand node over the compiled
\* `patterns`.  A match node or block is only returned when its patterns
\* compile, an expand node when its children do.
C16_BranchOrder ==
  (compileIn.kind = "rule" /\ compileOut.st # "none") =>
    LET j == compileIn.j
        r == compileOut.rule
    IN CASE j.include # << >> ->
              compileOut.st = "ok" /\ r.kind = "include"
         [] j.include = << >> /\ j.match # "" ->
              /\ compileOut.st = "ok" <=> Compile(j.match).ok
              /\ compileOut.st = "ok" =>
                   r.kind = "match" /\ r.operation = "opNOP" /\ r.pattern = j.match
         [] j.include = << >> /\ j.match = ""
              /\ j.begin # "" /\ (j.end # "" \/ j.while # "") ->
              /\ compileOut.st = "ok" <=> compilePatterns(1, j.patterns).st = "ok"
              /\ compileOut.st = "ok" =>
                   /\ r.kind = "match" /\ r.operation = "opPush"
                   /\ r.pattern = j.begin
                   /\ r.rules[1].operation = "opPop"
                   /\ r.rules[1].pattern = (IF j.while # "" THEN j.while ELSE j.end)
         [] j.include = << >> /\ j.match = ""
              /\ ~(j.begin # "" /\ (j.end # "" \/ j.while # ""))
              /\ (j.begin # "" \/ j.end # "" \/ j.while # "") ->
              compileOut.st = "err"
         [] OTHER ->
              /\ compileOut.st = "ok" <=> compilePatterns(1, j.patterns).st = "ok"
              /\ compileOut.st = "ok" =>
                   /\ r.kind = "expand"
                   /\ r.rules = compilePatterns(1, j.patterns).rules

\* a rule with `include` set, and with a `match` that does not compile and
\* a `begin` without `end`, has been compiled to an include node
C16_Witness ==
  /\ compileIn.kind = "rule"
  /\ compileIn.j.include # << >>
  /\ compileIn.j.match = "("
  /\ compileIn.j.begin # "" /\ compileIn.j.end = "" /\ compileIn.j.while = ""
  /\ compileOut.st = "ok"
  /\ compileOut.rule.kind = "include"

\* the evaluations of the last iteration that failed: a pattern that gave
\* an error, an include that did not resolve, a match whose captures failed
FailedEvals == {i \in 1..Len(last.log) : ~last.log[i].ok}

\* C17: when an evaluation fails, also in the sub-tokenization of a capture,
\* TokenizeSequence returns the error and no stack, TokenizeReader returns
\* the error and no token list, and nothing is evaluated or read after it.
C17_ErrorsAreFatal ==
  /\ [](FailedEvals # {} =>
          /\ last.st = "err"
          /\ pc = "failed"
          /\ top = << >>
          /\ result = [returned |-> TRUE, tokens |-> << >>, err |-> TRUE])
  /\ [][/\ pc # "failed"
        /\ pc' = "failed" => /\ last'.st = "err"
                             /\ Len(last'.log) \in FailedEvals'
                             /\ \A i \in FailedEvals' \ {Len(last'.log)} :
                                  last'.log[i].ev = "match"]_vars

\* a pattern failed inside the sub-tokenization of a capture on the second
\* line, after tokens were emitted and with a line still unread
C17_Witness ==
  /\ pc = "failed"
  /\ offset > 0
  /\ rest # << >>
  /\ tokens # << >>
  /\ \E i, k \in FailedEvals :
       /\ i < k /\ k = Len(last.log)
       /\ last.log[i].ev = "match" /\ last.log[i].rule.name = "cap"
       /\ last.log[k].ev = "match" /\ last.log[k].rule.name = "boom"
       /\ Len(last.log[k].top) = 2

\* C18: when the reader failed, TokenizeReader returns an error; it returns
\* no token list with a nil error for an input it read only in part.
C18_ReaderErrorAborts ==
  (result.returned /\ ioerr) => result.err

RECURSIVE Declarers(_, _)
\* the files among the first n that deserialized and declare the file type
\* ft, leading dots aside, in load order
Declarers(ft, n) ==
  IF n = 0 THEN << >>
  ELSE IF /\ files[n].ok
          /\ \E k \in 1..Len(files[n].json.FileTypes) :
               TrimLeftDots(files[n].json.FileTypes[k]) = ft
       THEN Append(Declarers(ft, n - 1), n)
       ELSE Declarers(ft, n - 1)

\* C19: FromFileType(ext, index) gives the index-th grammar, counted from 0
\* in load order, that declared ext, and the not-found error when none
\* declared ext or the index is outside the range of those grammars, for
\* every integer index.
C19_FromFileType ==
  pc # "load" =>
    \E ds \in {Declarers(entry.ft, Len(files))} :
      IF entry.index \in 0..(Len(ds) - 1)
      THEN /\ pc # "panicked"
           /\ pc # "nogrammar" => base = ds[entry.index + 1]
      ELSE pc = "nogrammar"

\* the scope names looked up: those of the files and one no file declares
ScopeNames == {files[i].json.ScopeName : i \in 1..Len(files)} \cup {"source.none"}

RECURSIVE LastDeclarer(_, _)
\* the last of the first n files that deserialized and declares scope s, or 0
LastDeclarer(s, n) ==
  IF n = 0 THEN 0
  ELSE IF files[n].ok /\ files[n].json.ScopeName = s THEN n
  ELSE LastDeclarer(s, n - 1)

\* C20: after NewLoader has processed files, FromScope(s) is the grammar of
\* the last file that deserialized and declares s, and the not-found error
\* when there is none; an include of s evaluates that grammar; a file that
\* fails to deserialize changes neither the scope nor the file type index.
C20_LastRegistrationWins ==
  /\ [](/\ \A s \in ScopeNames :
             \E g \in {FromScope(s)} :
               IF LastDeclarer(s, nloaded) = 0 THEN g = [st |-> "err"]
               ELSE g = GrammarOf(LastDeclarer(s, nloaded))
        /\ \A i \in 1..Len(last.log) :
             (/\ last.log[i].ev = "include"
              /\ last.log[i].rule.scopename \notin {"", "$self", "$base"}) =>
               /\ last.log[i].ok = (LastDeclarer(last.log[i].rule.scopename,
                                                 Len(files)) # 0)
               /\ last.log[i].ok =>
                    last.log[i].target = LastDeclarer(last.log[i].rule.scopename,
                                                      Len(files)))
  /\ [][(nloaded' = nloaded + 1 /\ ~files[nloaded'].ok) =>
          (scopes' = scopes /\ filetypes' = filetypes)]_vars

\* two files declared the scope with a file that failed between them and one
\* after them; an include of the scope in the first file evaluated the second
C20_Witness ==
  /\ nloaded = Len(files)
  /\ \E a, b, c, d \in 1..Len(files) :
       /\ a < b /\ b < c /\ c < d
       /\ files[a].ok /\ ~files[b].ok /\ files[c].ok /\ ~files[d].ok
       /\ files[a].json.ScopeName = files[c].json.ScopeName
       /\ base = a
       /\ \E i \in 1..Len(last.log) :
            /\ last.log[i].ev = "include" /\ last.log[i].ok
            /\ last.log[i].rule.grammar = a
            /\ last.log[i].rule.scopename = files[a].json.ScopeName
            /\ last.log[i].target = c

RECURSIVE Alone(_, _, _, _)
\* TokenizeReader on its own, from the line at offset off: the tokens the
\* callback gets in order after toks, the stack of the last TokenizeSequence
\* call, and how the call ends
Alone(off, rst, t, toks) ==
  IF rst = << >> THEN [st |-> "ok", top |-> t, tokens |-> toks]
  ELSE Bind(TokenizeSequence(off, SubSeq(rst, 1, LineLen(rst)), t, base),
            LAMBDA r :
         IF r.st # "ok"
         THEN [st |-> r.st, top |-> << >>, tokens |-> toks \o r.toks]
         ELSE Alone(off + LineLen(rst), SubSeq(rst, LineLen(rst) + 1, Len(rst)),
                    r.top, toks \o r.toks))

\* C21: goroutines that tokenize with the same grammar and loader, their
\* steps interleaved in any order, each get the tokens and the stack they get
\* alone; a step writes nothing to the loader's indexes or the grammar and
\* nothing to another goroutine's stack, tokens or cursor.
C21_SharedReadOnly ==
  /\ [](\A p \in DOMAIN procs :
          procs[p].pc \in {"done", "failed", "crashed"} =>
            \E a \in {Alone(0, procs[p].input, StackItem(GrammarOf(base)), << >>)} :
              /\ procs[p].tokens = a.tokens
              /\ procs[p].top = a.top
              /\ (procs[p].pc = "done") = (a.st = "ok")
              /\ (procs[p].pc = "failed") = (a.st = "err")
              /\ procs[p].pc = "done" =>
                   procs[p].result = [returned |-> TRUE,
                                      tokens |-> SortFunc(a.tokens),
                                      err |-> FALSE])
  /\ [][pc = "par" =>
          /\ UNCHANGED <<files, scopes, filetypes, base>>
          /\ \E p \in Procs : \A q \in Procs \ {p} : procs'[q] = procs[q]]_vars

\* one goroutine has returned its tokens, with a block left open, while the
\* other is inside a line, in a block of its own, with tokens collected
C21_Witness ==
  /\ pc = "par"
  /\ procs[1].pc = "done"
  /\ procs[1].tokens # << >>
  /\ Len(procs[1].top) > 1
  /\ procs[2].pc = "seq"
  /\ procs[2].lineoffset > 0
  /\ procs[2].lineoffset < Len(procs[2].text)
  /\ Len(procs[2].top) > 1
  /\ procs[2].top # procs[1].top

\* an iteration of TokenizeSequence's outer loop is about to run
AtCursor == pc = "seq" /\ lineoffset < Len(text)

\* the text from the cursor on
Ahead == SubSeq(text, lineoffset + 1, Len(text))

\* the end rules among the rules of frame f: the rules that pop when their
\* pattern matches
EndRulesOf(f) ==
  {k \in 1..Len(f.rules) : f.rules[k].operation = "opPop" /\ ~f.rules[k].negate}

\* the top frame is the frame of a begin/end block
InBlock == top # << >> /\ EndRulesOf(Top(top)) # {}

\* the end rule of the open block
EndRule == Top(top).rules[CHOOSE k \in EndRulesOf(Top(top)) : TRUE]

\* pattern p finds a match at the cursor
MatchesAhead(p) ==
  \E m \in {Match(p, Ahead)} : ~m.err /\ ~m.isnil

MatchEvals == {i \in 1..Len(last.log) : last.log[i].ev = "match"}

\* the scope names a match rule gives to tokens of its own: its name and
\* the names of its captures
OwnScopes(rule) ==
  {rule.name} \cup {rule.captures[c].name : c \in 1..Len(rule.captures)}

\* C23: a scoped token has the Depth() of the stack top at the moment it is
\* emitted; the tokens of a pop rule, the end-match token and the block
\* token, have the depth of the frame being popped, one more than the depth
\* of the stack after the pop.
C23_DepthAtEmission ==
  /\ \A i \in MatchEvals :
       last.log[i].ok =>
         /\ last.log[i].rule.name # "" =>
              /\ last.log[i].toks # << >>
              /\ last.log[i].toks[1].Scope = last.log[i].rule.name
              /\ last.log[i].toks[1].Depth = Depth(last.log[i].top)
         /\ last.log[i].rule.operation = "opPop" =>
              /\ last.log[i].toks[Len(last.log[i].toks)].Depth
                   = Depth(last.log[i].top)
              /\ Depth(last.log[i].top) = Depth(last.log[i].after) + 1
              /\ Depth(last.log[i].top) = Len(last.log[i].top) + 1
         /\ \A k \in Scoped(last.log[i].toks) :
              last.log[i].toks[k].Depth >= Depth(last.log[i].top)
  /\ \A k \in Scoped(last.toks) :
       \E i \in MatchEvals :
         /\ last.toks[k].Scope \in OwnScopes(last.log[i].rule)
         /\ last.toks[k].Depth = Depth(last.log[i].top)
         /\ \E n \in 1..Len(last.log[i].toks) : last.log[i].toks[n] = last.toks[k]

\* the end rule of a block nested in a block has emitted its two tokens, at
\* the depth of the inner block's frame
C23_Witness ==
  \E i \in MatchEvals :
    /\ last.log[i].ok
    /\ last.log[i].rule.operation = "opPop"
    /\ last.log[i].rule.name # ""
    /\ Len(last.log[i].top) = 3
    /\ Len(last.log[i].toks) = 2
    /\ \A k \in 1..2 : last.log[i].toks[k].Depth = 4
    /\ Len(top) = 2

\* C24: an evaluation that returns advance 0 and no error did not match: it
\* emitted no token and returns the stack it was given, also when the
\* pattern matches the empty string and for the negated while rule.
C24_ZeroMeansNoMatch ==
  \A i \in MatchEvals :
    (last.log[i].ok /\ last.log[i].len = 0) =>
      /\ last.log[i].toks = << >>
      /\ last.log[i].after = last.log[i].top

\* the rules TokenizeSequence took from a rule list and evaluated in the
\* last iteration
Tries == {i \in 1..Len(last.log) : last.log[i].ev = "try"}

\* C25: a rule TokenizeSequence tries is a member of the rule list of the
\* frame that is the stack top when it is tried; after a block's frame is
\* popped its inner patterns are not tried until the block is entered again.
C25_TriedFromTop ==
  \A i \in Tries :
    /\ last.log[i].top # << >>
    /\ \E k \in 1..Len(Top(last.log[i].top).rules) :
         Top(last.log[i].top).rules[k] = last.log[i].rule

\* C26: the rules of a frame created by a push are not tried at the cursor
\* position where the begin pattern matched, also when it matched the empty
\* string.
C26_NewFrameNextPosition ==
  \A i \in MatchEvals :
    (last.log[i].ok /\ last.log[i].rule.operation = "opPush") =>
      \A j \in Tries :
        (j > i /\ last.log[j].top = last.log[i].after) =>
          \/ last.log[j].pos > last.log[i].pos
          \/ \A k \in 1..Len(last.log[i].rule.rules) :
               last.log[i].rule.rules[k] # last.log[j].rule

\* the "match" log entries of the last iteration whose rule pushed a frame
Pushes == {i \in 1..Len(last.log) :
             last.log[i].ev = "match" /\ last.log[i].ok
             /\ last.log[i].rule.operation = "opPush"}

\* C27: TokenizeReader hands the stack and the running offset from line to
\* line, each line with its newline: a frame remembers the offset of its
\* begin in the whole input, a block closed on a later line gets one block
\* token from there to the end of the end match in the whole input, and
\* every position a rule is evaluated at is an offset into the whole input.
C27_AcrossLines ==
  /\ [](/\ pc = "seq" =>
             /\ text = SubSeq(input, offset + 1, offset + Len(text))
             /\ rest = SubSeq(input, offset + Len(text) + 1, Len(input))
             /\ text # << >>
             /\ text[Len(text)] = "\n" \/ rest = << >>
             /\ \A k \in 1..(Len(text) - 1) : text[k] # "\n"
        /\ \A i \in Pushes : Top(last.log[i].after).offset = last.log[i].pos
        /\ \A i \in Pops :
             ~last.log[i].rule.negate =>
               \E k \in 1..Len(last.log[i].toks) :
                 /\ last.log[i].toks[k] =
                      BlockToken(last.log[i], Depth(last.log[i].top))
                 /\ \A n \in 1..Len(last.log[i].toks) :
                      (last.log[i].toks[n].Start = last.log[i].toks[k].Start
                       /\ TokEnd(last.log[i].toks[n]) = TokEnd(last.log[i].toks[k]))
                        => n = k
        /\ (pc = "done" /\ files = Scenarios[1].files
            /\ input = <<"(", "\n", ")">>) =>
             result.tokens = <<Token("block", 0, 3, 3), Token("", 1, 1, 0),
                               Token("block", 2, 1, 3)>>
        /\ (pc = "done" /\ files = Scenarios[1].files
            /\ input = <<"(", "\n", "a">>) =>
             result.tokens = <<Token("", 1, 1, 0), Token("id", 2, 1, 3)>>)
  /\ [][/\ (pc = "seq" /\ pc' = "scan") =>
             (top' = top /\ offset' = offset + Len(text))
        /\ (pc = "scan" /\ pc' = "seq") => (top' = top /\ offset' = offset)
        /\ AtCursor =>
             \A i \in 1..Len(last'.log) :
               /\ last'.log[i].pos >= offset + lineoffset
               /\ last'.log[i].pos + last'.log[i].len <= offset + Len(text)
               /\ i = 1 => last'.log[i].pos = offset + lineoffset]_vars

\* a block that began on the first line is closed on a later line
C27_Witness ==
  /\ pc = "seq"
  /\ offset > 0
  /\ last.st = "ok"
  /\ \E i \in Pops :
       /\ ~last.log[i].rule.negate
       /\ last.log[i].rule.name # ""
       /\ Top(last.log[i].top).offset < offset
       /\ last.log[i].pos >= offset
       /\ top = last.log[i].after

\* the captures of the match logged at i that the loop over the groups
\* handles for a group i >= 1: the slot c holds the capture of group c - 1
Captured(i) ==
  {c \in 2..Len(last.log[i].rule.captures) :
     /\ c <= Len(last.log[i].groups)
     /\ RngLen(last.log[i].groups[c]) # 0
     /\ last.log[i].rule.captures[c].kind # "nil"}

\* the stack a capture's substring is tokenized under
CaptureStack(i, c) ==
  Append(last.log[i].top, Frame(last.log[i].rule.captures[c].rules, 0))

\* the matches, logged after the match at i, of the children of its capture
\* c that are plain match rules with a scope
ChildMatches(i, c) ==
  {j \in MatchEvals :
     /\ j > i
     /\ last.log[j].ok
     /\ \E k \in 1..Len(last.log[i].rule.captures[c].rules) :
          last.log[j].rule = last.log[i].rule.captures[c].rules[k]
     /\ last.log[j].rule.operation = "opNOP"
     /\ last.log[j].rule.name # ""
     /\ Len(last.log[j].top) > Len(last.log[i].top)
     /\ SubSeq(last.log[j].top, 1, Len(last.log[i].top) + 1) = CaptureStack(i, c)}

\* C28: for every group i >= 1 of a match with a non-empty range and a
\* capture, a token with the capture's scope is emitted over the group's
\* range at the depth of the current stack, and the captured substring is
\* tried under a new frame holding the capture's children on top of the
\* current stack, the tokens of these children being one deeper and inside
\* the group's range.
C28_CaptureChildren ==
  \A i \in MatchEvals :
    last.log[i].ok =>
      \A c \in Captured(i) :
        /\ last.log[i].rule.captures[c].name # "" =>
             \E n \in 1..Len(last.log[i].toks) :
               last.log[i].toks[n] =
                 Token(last.log[i].rule.captures[c].name,
                       last.log[i].pos + last.log[i].groups[c].Start,
                       RngLen(last.log[i].groups[c]), Depth(last.log[i].top))
        /\ last.log[i].rule.captures[c].rules # << >> =>
             /\ \E j \in (i + 1)..Len(last.log) :
                  /\ last.log[j].ev = "try"
                  /\ last.log[j].top = CaptureStack(i, c)
                  /\ last.log[j].pos = last.log[i].pos + last.log[i].groups[c].Start
                  /\ last.log[j].rule = last.log[i].rule.captures[c].rules[1]
             /\ \A j \in ChildMatches(i, c) :
                  /\ last.log[j].toks[1].Depth = Depth(last.log[i].top) + 1
                  /\ last.log[j].toks[1].Start
                       >= last.log[i].pos + last.log[i].groups[c].Start
                  /\ TokEnd(last.log[j].toks[1])
                       <= last.log[i].pos + last.log[i].groups[c].End

\* C29: the root frame is never popped.  No iteration finds a nil stack;
\* while TokenizeReader runs and no error was returned the stack is not nil and its bottom frame is the root
\* frame of the grammar; every frame above it was pushed by a push rule and
\* holds the paired pop rule first; a pop rule is only applied to a stack
\* of two frames or more whose top frame holds that pop rule, and it
\* returns the stack below that frame.
C29_RootNeverPopped ==
  /\ [](/\ last.st # "panic"
        /\ pc \in {"scan", "seq", "done"} =>
             /\ top # << >>
             /\ <<top[1]>> = StackItem(GrammarOf(base))
             /\ \A k \in 2..Len(top) :
                  /\ top[k].rules # << >>
                  /\ top[k].rules[1].operation = "opPop"
        /\ \A i \in Pops :
             /\ Len(last.log[i].top) >= 2
             /\ Top(last.log[i].top).rules[1] = last.log[i].rule
             /\ last.log[i].after = Previous(last.log[i].top)
             /\ last.log[i].after[1] = last.log[i].top[1]
        /\ \A i \in Pushes :
             /\ last.log[i].after = Append(last.log[i].top,
                                           Frame(last.log[i].rule.rules, last.log[i].pos))
             /\ last.log[i].rule.rules[1].operation = "opPop")
  /\ [][AtCursor => (last'.st = "ok" => (top' # << >> /\ top'[1] = top[1]))]_vars

\* a block was closed at the end of the input and the stack is back at the
\* root frame alone
C29_Witness ==
  /\ pc = "done"
  /\ Len(input) = MaxLen
  /\ Len(top) = 1
  /\ \E i \in Pops : last.log[i].ok /\ Len(last.log[i].top) = 2

\* a token lies inside the first n bytes
Inside(tok, n) == tok.Start >= 0 /\ tok.Length >= 0 /\ tok.Start + tok.Length <= n

\* C30: every token TokenizeReader returns lies inside the input, Start >= 0,
\* Length >= 0 and Start + Length <= N, the block tokens of pop rules and
\* the tokens of captured substrings included; every token yielded so far
\* lies inside the lines read so far.
C30_TokensInsideInput ==
  /\ pc = "done" =>
       \A k \in 1..Len(result.tokens) : Inside(result.tokens[k], Len(input))
  /\ pc \in {"seq", "scan", "done"} =>
       \A k \in 1..Len(tokens) : Inside(tokens[k], Len(input) - Len(rest))
  /\ \A i \in MatchEvals :
       \A k \in 1..Len(last.log[i].toks) :
         Inside(last.log[i].toks[k], Len(input) - Len(rest))

\* the tokens returned hold a block token over the whole input, closed on
\* its last line, and a token ending at the last byte of the input
C30_Witness ==
  /\ pc = "done"
  /\ Len(input) = MaxLen
  /\ \E k \in 1..Len(result.tokens) :
       /\ result.tokens[k].Start = 0
       /\ result.tokens[k].Length = Len(input)
  /\ \E i \in Pops : last.log[i].ok /\ last.log[i].pos > 0
  /\ \E k \in 1..Len(input) : input[k] = "\n"

\* the matches of the last iteration that tokenized a captured substring
\* in which a begin rule opened a frame
OpenedInCapture(i) ==
  \E c \in 1..Len(last.log[i].rule.captures) :
    /\ c <= Len(last.log[i].groups)
    /\ RngLen(last.log[i].groups[c]) # 0
    /\ last.log[i].rule.captures[c].kind # "nil"
    /\ \E j \in Pushes :
         /\ j > i
         /\ Len(last.log[j].top) > Len(last.log[i].top)
         /\ SubSeq(last.log[j].top, 1, Len(last.log[i].top) + 1) =
              Append(last.log[i].top, Frame(last.log[i].rule.captures[c].rules, 0))

\* C31: tokenizing a captured substring never changes the enclosing stack.
\* The stack a match rule returns is the stack it was given, with the
\* rule's own frame on top after a push and without its top frame after a
\* pop; a frame a begin rule opened inside a capture is gone when the
\* capture ends, its end matched or not.
C31_CapturesKeepStack ==
  \A i \in MatchEvals :
    last.log[i].ok =>
      /\ last.log[i].rule.operation = "opNOP" => last.log[i].after = last.log[i].top
      /\ last.log[i].rule.operation = "opPush" =>
           last.log[i].after = Append(last.log[i].top,
                                      Frame(last.log[i].rule.rules, last.log[i].pos))
      /\ last.log[i].rule.operation = "opPop" =>
           last.log[i].after = Previous(last.log[i].top)

\* a begin rule opened a frame inside a captured substring and the match
\* with that capture has returned
C31_Witness ==
  /\ pc = "seq"
  /\ last.st = "ok"
  /\ \E i \in MatchEvals :
       /\ last.log[i].ok
       /\ last.log[i].rule.captures # << >>
       /\ OpenedInCapture(i)
       /\ top = last.log[i].after

\* the frame of the begin match b is on the stack
StillOpen(b) == Len(top) >= b.height /\ top[b.height] = Frame(b.rules, b.pos)

\* the token covers a byte of the n bytes from p on
Overlaps(tok, p, n) == tok.Start < p + n /\ TokEnd(tok) > p

\* C32: a block's scope is emitted only by its end rule.  As long as the
\* frame of a begin match is on the stack, at the end of the input too, no
\* token emitted from the begin on has the block's scope at the depth of
\* the block's frame, and no token covers the bytes the begin match
\* consumed unless a capture of the begin rule names them.
C32_ScopeOnlyAtEnd ==
  pc \in {"seq", "scan", "done"} =>
    \A b \in begun :
      StillOpen(b) =>
        /\ b.rules[1].name # "" =>
             \A k \in 1..Len(tokens) :
               ~(/\ tokens[k].Scope = b.rules[1].name
                 /\ tokens[k].Depth = b.height + 1
                 /\ tokens[k].Start >= b.pos)
        /\ (b.len > 0 /\ ~b.named) =>
             /\ \A k \in 1..Len(tokens) : ~Overlaps(tokens[k], b.pos, b.len)
             /\ pc = "done" =>
                  \A k \in 1..Len(result.tokens) :
                    ~Overlaps(result.tokens[k], b.pos, b.len)

\* C33: once NewLoader has processed the files its two indexes agree: for
\* every extension ext and every index i from 0 up to the number of
\* grammars registered for ext, the grammar FromFileType(ext, i) returns is
\* the grammar, of the same definition, that FromScope returns for its
\* scope name.
C33_IndexesConsistent ==
  nloaded = Len(files) =>
    \A ft \in DOMAIN filetypes :
      \A i \in 0..(Len(filetypes[ft]) - 1) :
        \E g \in {FromFileType(ft, i)} :
          g.st = "ok" =>
            \E h \in {FromScope(g.scopeName)} :
              /\ h.st = "ok"
              /\ h.id = g.id
              /\ h = g

====
